---- MODULE Spec2Model ----
(***************************************************************************)
(* AntCode replay viewer: the replay-log parser (AntSimulation.load_maps), *)
(* the settings store (AntSettings), the command dispatcher                *)
(* (CommandManager and the commands registered by AntSimulation.__init__), *)
(* and the two threads that share the command queue: the render loop       *)
(* (AntSimulation.run) and the console reader                              *)
(* (AntSimulation.get_console_input).                                      *)
(***************************************************************************)
EXTENDS Integers, Sequences, FiniteSets, TLC

VARIABLES
    data,                 \* AntSettings.data: key -> value
    type_hints,           \* AntSettings.type_hints: key -> type tag
    storage,              \* the settings JSON file on disk
    simulationPaused,     \* AntSettings.simulationPaused
    maps,                 \* AntSimulation.maps: None or the list of rounds
    board_size,           \* AntSimulation.board_size
    winner,               \* AntSimulation.winner
    current_map_index,    \* AntSimulation.current_map_index
    map_data,             \* MapComponent.map_data: the board handed to the renderer
    has_five_ants,        \* AntSimulation.has_five_ants
    filename,             \* load_maps(): the file the dialog last returned
    map_switch_interval,  \* AntSimulation.map_switch_interval
    since_switch,         \* get_ticks() - last_map_switch_time at the latest tick (ms)
    running,              \* AntSimulation.running (threading.Event): TRUE when set
    command_queue,        \* AntSimulation.command_queue (queue.Queue)
    rpc,                  \* position of the main thread in run()
    message,              \* run(): the local `message` last dequeued
    ipc,                  \* position of the console thread in get_console_input()
    commandList           \* get_console_input(): the line last typed (command, args)

settingsVars == <<data, type_hints, storage, simulationPaused>>
logVars      == <<maps, board_size, winner, current_map_index, map_data, has_five_ants,
                 filename>>
threadVars   == <<running, command_queue, rpc, message, ipc, commandList>>
vars == <<data, type_hints, storage, simulationPaused, maps, board_size, winner,
          current_map_index, map_data, has_five_ants, filename, map_switch_interval,
          since_switch, running, command_queue, rpc, message, ipc, commandList>>

(***************************************************************************)
(* Python values.  None and Optional[...] are the empty tuple and a        *)
(* one-element tuple.  A settings value carries its runtime type; the      *)
(* payload v is an integer for every type (bool: 0/1, float: tenths).      *)
(***************************************************************************)
None == <<>>
Some(x) == <<x>>

PyNone == [t |-> "NoneType", v |-> 0]
PyBool(b) == [t |-> "bool", v |-> IF b THEN 1 ELSE 0]
PyInt(n) == [t |-> "int", v |-> n]
PyFloat(tenths) == [t |-> "float", v |-> tenths]
PyStr(id) == [t |-> "str", v |-> id]

\* Python truthiness of a value (`if self.settings[...]`).
Truthy(val) == val.v # 0 /\ val.t # "NoneType"

\* Python's floor division a // b, b # 0.
FloorDiv(a, b) == IF b > 0 THEN a \div b ELSE (0 - a) \div (0 - b)

Min(a, b) == IF a < b THEN a ELSE b

(***************************************************************************)
(* AntSettings                                                             *)
(***************************************************************************)
KeyOrder == <<"pauseOnStep", "stepsPerSecond", "cellSize", "autoSave",
              "stopOnLastStep", "fancyGraphics", "showTopBar">>

DefaultKeys == {KeyOrder[i] : i \in 1..Len(KeyOrder)}

DEFAULT_SETTINGS ==
    [k \in DefaultKeys |->
        CASE k = "pauseOnStep"    -> <<PyBool(TRUE), "bool">>
          [] k = "stepsPerSecond" -> <<PyInt(5), "int">>
          [] k = "cellSize"       -> <<PyInt(30), "int">>
          [] k = "autoSave"       -> <<PyBool(TRUE), "bool">>
          [] k = "stopOnLastStep" -> <<PyBool(TRUE), "bool">>
          [] k = "fancyGraphics"  -> <<PyBool(FALSE), "bool">>
          [] k = "showTopBar"     -> <<PyBool(TRUE), "bool">>]

\* type_map of _validate_type: the tags it knows.
TypeMapTags == {"bool", "int", "float", "str", "list", "dict", "NoneType"}

\* isinstance(value, cls): bool is a subclass of int.
IsInstance(val, cls) ==
    \/ val.t = cls
    \/ cls = "int" /\ val.t = "bool"

\* _validate_type: an unknown tag maps to `object`, which everything is.
ValidateType(val, expected_type) ==
    IF expected_type \in TypeMapTags THEN IsInstance(val, expected_type) ELSE TRUE

\* The settings file: missing, not decodable, a JSON document that is no object
\* (a number, true or null; an array that holds no key name), or a mapping from
\* keys to JSON arrays, [value, tag] when well formed.
MissingFile == [kind |-> "missing", entries |-> <<>>]
CorruptFile == [kind |-> "corrupt", entries |-> <<>>]
NumberFile == [kind |-> "number", entries |-> <<>>]
ArrayFile == [kind |-> "array", entries |-> <<>>]
MappingFile(entries) == [kind |-> "map", entries |-> entries]

\* save(): the whole mapping, each value with its tag.
Combined(d, th) == [k \in DOMAIN d |-> <<d[k], th[k]>>]

Save(d, th) == MappingFile(Combined(d, th))

\* load(): the entry adopted for each default key.
LoadedEntries(file) ==
    IF file.kind = "map"
    THEN [k \in DefaultKeys |->
            IF k \in DOMAIN file.entries
               /\ Len(file.entries[k]) >= 2
               /\ ValidateType(file.entries[k][1], file.entries[k][2])
            THEN <<file.entries[k][1], file.entries[k][2]>>
            ELSE DEFAULT_SETTINGS[k]]
    ELSE DEFAULT_SETTINGS

\* load(): the positions in DEFAULT_SETTINGS at which the loop raises.  `key in
\* combined_data` raises TypeError on a number, true or null; combined_data[key][0]
\* or [1] raises IndexError on an array shorter than two.  Neither is caught.
LoadRaisesAt(file) ==
    {i \in 1..Len(KeyOrder) :
        \/ file.kind = "number"
        \/ /\ file.kind = "map"
           /\ KeyOrder[i] \in DOMAIN file.entries
           /\ Len(file.entries[KeyOrder[i]]) < 2}

\* load(): what it raises ("" when it returns), the in-memory mapping (the keys
\* adopted before the one that raises) and the file it leaves behind.
Load(file) ==
    LET at == LoadRaisesAt(file)
        stop == IF at = {} THEN Len(KeyOrder) + 1
                ELSE CHOOSE i \in at : \A j \in at : i <= j
        keys == {KeyOrder[i] : i \in 1..(stop - 1)}
        e == LoadedEntries(file)
        d == [k \in keys |-> e[k][1]]
        th == [k \in keys |-> e[k][2]]
    IN  [raised |-> IF at = {} THEN ""
                    ELSE IF file.kind = "number" THEN "TypeError" ELSE "IndexError",
         data |-> d,
         type_hints |-> th,
         storage |-> IF at = {} THEN Save(d, th) ELSE file]

\* A variant of SetItem that stores the value without validating its type.
SetItemUnchecked(d, th, st, key, val) ==
    LET d2 == [k \in DOMAIN d \cup {key} |-> IF k = key THEN val ELSE d[k]]
    IN  IF ~Truthy(d2["autoSave"])
        THEN [raised |-> "", data |-> d2, storage |-> st]
        ELSE IF DOMAIN d2 \subseteq DOMAIN th
        THEN [raised |-> "", data |-> d2, storage |-> Save(d2, th)]
        ELSE [raised |-> "KeyError", data |-> d2, storage |-> st]

\* A variant of SetItem that decides on saving by the autoSave value it finds
\* before the assignment.
SetItemSavesByOldValue(d, th, st, key, val) ==
    IF key \in DOMAIN d /\ ~ValidateType(val, th[key])
    THEN [raised |-> "TypeError", data |-> d, storage |-> st]
    ELSE LET d2 == [k \in DOMAIN d \cup {key} |-> IF k = key THEN val ELSE d[k]]
         IN  IF ~Truthy(d["autoSave"])
             THEN [raised |-> "", data |-> d2, storage |-> st]
             ELSE IF DOMAIN d2 \subseteq DOMAIN th
             THEN [raised |-> "", data |-> d2, storage |-> Save(d2, th)]
             ELSE [raised |-> "KeyError", data |-> d2, storage |-> st]

\* __setitem__: what it raises ("" when it returns), and the mapping and file after.
SetItem(d, th, st, key, val) ==
    IF key \in DOMAIN d /\ key \notin DOMAIN th
    THEN [raised |-> "KeyError", data |-> d, storage |-> st]
    ELSE IF key \in DOMAIN d /\ ~ValidateType(val, th[key])
    THEN [raised |-> "TypeError", data |-> d, storage |-> st]
    ELSE LET d2 == [k \in DOMAIN d \cup {key} |-> IF k = key THEN val ELSE d[k]]
         IN  IF "autoSave" \notin DOMAIN d2
             THEN [raised |-> "KeyError", data |-> d2, storage |-> st]
             ELSE IF ~Truthy(d2["autoSave"])
             THEN [raised |-> "", data |-> d2, storage |-> st]
             ELSE IF DOMAIN d2 \subseteq DOMAIN th
             THEN [raised |-> "", data |-> d2, storage |-> Save(d2, th)]
             ELSE [raised |-> "KeyError", data |-> d2, storage |-> st]

\* __delitem__: what it raises ("" when it returns), and the mapping, the tags and
\* the file after.  `del` of an absent key, and self.data["autoSave"] once autoSave
\* is deleted, raise KeyError.
DelItem(d, th, st, key) ==
    IF key \notin DOMAIN d
    THEN [raised |-> "KeyError", data |-> d, type_hints |-> th, storage |-> st]
    ELSE LET d2 == [k \in DOMAIN d \ {key} |-> d[k]] IN
         IF key \notin DOMAIN th
         THEN [raised |-> "KeyError", data |-> d2, type_hints |-> th, storage |-> st]
         ELSE LET th2 == [k \in DOMAIN th \ {key} |-> th[k]] IN
              IF "autoSave" \notin DOMAIN d2
              THEN [raised |-> "KeyError", data |-> d2, type_hints |-> th2, storage |-> st]
              ELSE IF ~Truthy(d2["autoSave"])
              THEN [raised |-> "", data |-> d2, type_hints |-> th2, storage |-> st]
              ELSE IF DOMAIN d2 \subseteq DOMAIN th2
              THEN [raised |-> "", data |-> d2, type_hints |-> th2,
                    storage |-> Save(d2, th2)]
              ELSE [raised |-> "KeyError", data |-> d2, type_hints |-> th2,
                    storage |-> st]

(***************************************************************************)
(* The replay log.  A file is the list of sections that                    *)
(* content.split("=" * 30) yields; a section is its list of lines, with    *)
(* the blank first and last line the split leaves around it.  A line is a  *)
(* blank line, the 25-character separator, a board row (its characters),   *)
(* or a text line holding a keyword token: w, with the decimal numbers     *)
(* n and m that follow it (-1 when absent) or the word s that follows it.  *)
(***************************************************************************)
Blank == [k |-> "blank", w |-> "", n |-> -1, m |-> -1, s |-> "", chars |-> <<>>]
Sep25 == [k |-> "sep", w |-> "", n |-> -1, m |-> -1, s |-> "", chars |-> <<>>]
Row(chars) == [k |-> "row", w |-> "", n |-> -1, m |-> -1, s |-> "", chars |-> chars]
Num(w, n) == [k |-> "text", w |-> w, n |-> n, m |-> -1, s |-> "", chars |-> <<>>]
Num2(w, n, m) == [k |-> "text", w |-> w, n |-> n, m |-> m, s |-> "", chars |-> <<>>]
Word(w, s) == [k |-> "text", w |-> w, n |-> -1, m |-> -1, s |-> s, chars |-> <<>>]

VALID_MAP_CHARS ==
    {"#", ".", "@", "X", "A", "B", "C", "D", "E", "F", "G", "H",
     "a", "b", "c", "d", "e", "f", "g", "h",
     "1", "2", "3", "4", "5", "6", "7", "8", "9"}

BLANK_MAP ==
    [r \in 1..20 |->
        [c \in 1..21 |-> IF r \in {1, 20} \/ c \in {1, 21} THEN "#" ELSE "."]]

Round(number, north_points, south_points, board) ==
    [number |-> number, north_points |-> north_points,
     south_points |-> south_points, board |-> board]

\* str.strip() on a section, then split("\n"): leading and trailing blank lines go.
RECURSIVE DropLeadingBlank(_)
DropLeadingBlank(ls) ==
    IF ls # <<>> /\ Head(ls).k = "blank" THEN DropLeadingBlank(Tail(ls)) ELSE ls

RECURSIVE DropTrailingBlank(_)
DropTrailingBlank(ls) ==
    IF ls # <<>> /\ ls[Len(ls)].k = "blank"
    THEN DropTrailingBlank(SubSeq(ls, 1, Len(ls) - 1))
    ELSE ls

Strip(section) == DropTrailingBlank(DropLeadingBlank(section))

\* re.search(r"SIZE (\d+) (\d+)", first_section): the first line that matches.
SizeMatches(section) ==
    {i \in 1..Len(section) :
        section[i].k = "text" /\ section[i].w = "SIZE"
        /\ section[i].n >= 0 /\ section[i].m >= 0}

\* re.search(r"WINNER (\w+)", last_section)
WinnerMatches(section) ==
    {i \in 1..Len(section) :
        section[i].k = "text" /\ section[i].w = "WINNER" /\ section[i].s # ""}

First(S) == CHOOSE i \in S : \A j \in S : i <= j

\* re.search(r"<KEYWORD> (\d+)", line)
NumMatch(line, keyword) == line.k = "text" /\ line.w = keyword /\ line.n >= 0

\* lines.index("=" * 25): the positions of lines equal to the separator.
SepPositions(lines) == {i \in 1..Len(lines) : lines[i].k = "sep"}

\* A board line passes when it has exactly cols characters, all of the alphabet;
\* a text line (it holds a space) or a separator line ('=') never passes.
BoardLineOk(line, cols) ==
    /\ line.k \in {"row", "blank"}
    /\ Len(line.chars) = cols
    /\ \A i \in 1..Len(line.chars) : line.chars[i] \in VALID_MAP_CHARS

\* `{'I', 'J'} <= set(line)`
FiveAntLine(line) == {"I", "J"} \subseteq {line.chars[i] : i \in 1..Len(line.chars)}

\* lines[board_start_idx : board_start_idx + rows] (0-based in the code; a slice
\* is cut at the end of the list).
BoardSlice(lines, sep, rows) == SubSeq(lines, sep + 1, Min(sep + rows, Len(lines)))

\* One pass of the `for section in sections[1:]` body: "skip", "error", or "round".
SectionResult(section, rows, cols) ==
    LET lines == Strip(section) IN
    IF lines = <<>> \/ Len(lines) # 4 + rows
    THEN [kind |-> "skip", round |-> None, five |-> FALSE]
    ELSE IF ~NumMatch(lines[1], "ROUND")
    THEN [kind |-> "error", round |-> None, five |-> FALSE]
    ELSE IF ~(NumMatch(lines[2], "NORTH") /\ NumMatch(lines[3], "SOUTH"))
    THEN [kind |-> "error", round |-> None, five |-> FALSE]
    ELSE IF SepPositions(lines) = {}
    THEN [kind |-> "error", round |-> None, five |-> FALSE]
    ELSE LET board == BoardSlice(lines, First(SepPositions(lines)), rows)
             bad == {i \in 1..Len(board) : ~BoardLineOk(board[i], cols)}
             five == \E i \in 1..Len(board) :
                        /\ \A j \in bad : i < j
                        /\ FiveAntLine(board[i])
         IN  IF bad # {}
             THEN [kind |-> "error", round |-> None, five |-> five]
             ELSE [kind |-> "round",
                   round |-> Some(Round(lines[1].n, lines[2].n, lines[3].n,
                                        [i \in 1..Len(board) |-> board[i].chars])),
                   five |-> five]

RequiredRounds == 200

ParseFailure(five) ==
    [ok |-> FALSE, board_size |-> <<None, None>>, winner |-> None, rounds |-> <<>>,
     five |-> five]

\* A variant of AcceptedRounds that re-sorts the rounds by their declared number.
AcceptedRoundsSorted(results) ==
    LET accepted == SelectSeq(results, LAMBDA r : r.kind = "round")
    IN  SortSeq([i \in 1..Len(accepted) |-> accepted[i].round[1]],
                LAMBDA a, b : a.number < b.number)

\* `rounds.append(round_obj)` over the sections in file order: the rounds of the
\* sections that were not skipped.
AcceptedRounds(results) ==
    LET accepted == SelectSeq(results, LAMBDA r : r.kind = "round")
    IN  [i \in 1..Len(accepted) |-> accepted[i].round[1]]

\* A variant of CountOk that only rejects a deficit.
CountOkAtLeast(n) == n >= RequiredRounds

\* `if not len(rounds) == 200: raise ValueError`
CountOk(n) == n = RequiredRounds

\* The try block of load_maps on the text of a file.
ParseLog(sections) ==
    IF SizeMatches(sections[1]) = {} THEN ParseFailure(FALSE)
    ELSE IF WinnerMatches(sections[Len(sections)]) = {} THEN ParseFailure(FALSE)
    ELSE
      LET size == sections[1][First(SizeMatches(sections[1]))]
          last == sections[Len(sections)]
          res == [i \in 2..Len(sections) |-> SectionResult(sections[i], size.n, size.m)]
          errors == {i \in 2..Len(sections) : res[i].kind = "error"}
          \* the sections the loop reaches: up to and including the first error
          reached == {i \in 2..Len(sections) : \A j \in errors : i <= j}
          five == \E i \in reached : res[i].five
          rounds == AcceptedRounds([i \in 1..Len(sections) - 1 |-> res[i + 1]])
      IN  IF errors # {} THEN ParseFailure(five)
          ELSE IF ~CountOk(Len(rounds)) THEN ParseFailure(five)
          ELSE [ok |-> TRUE,
                board_size |-> <<Some(size.n), Some(size.m)>>,
                winner |-> Some(last[First(WinnerMatches(last))].s),
                rounds |-> rounds,
                five |-> five]

(***************************************************************************)
(* The files the file dialog can return.  A file is described by how its   *)
(* round sections are numbered, how many there are, and one defect; the    *)
(* sections of the file are built from that description and parsed as the  *)
(* code parses them.  The board and the scores of the                     *)
(* i-th section differ with i, so that the order of the rounds shows.      *)
(***************************************************************************)
BoardRows == 2
BoardCols == 2

\* The cell at row r, column c of the i-th board.
Cell(i, r, c) == IF (i + r + c) % 3 = 0 THEN "#" ELSE "."

BoardLines(i) ==
    [r \in 1..BoardRows |-> Row([c \in 1..BoardCols |-> Cell(i, r, c)])]

\* The i-th board with its first row replaced.
WithFirstRow(i, row) ==
    [r \in 1..BoardRows |-> IF r = 1 THEN row ELSE BoardLines(i)[r]]

AntCells == <<"A", "e", "@", "3">>

NumberOf(numbering, i, count) ==
    CASE numbering = "asc"  -> i
      [] numbering = "desc" -> count + 1 - i
      [] numbering = "same" -> 1

RoundSection(number, north, south, board) ==
    <<Blank, Num("ROUND", number), Num("NORTH", north), Num("SOUTH", south), Sep25>>
    \o board \o <<Blank>>

\* The i-th round section of a file, with the file's defect when it sits at i.
SectionOf(f, i) ==
    LET number == NumberOf(f.numbering, i, f.count)
        good == RoundSection(number, i, 2 * i, BoardLines(i))
    IN  IF f.at # i THEN good
        ELSE CASE f.defect = "nosep" ->
                    <<Blank, Num("ROUND", number), Num("NORTH", i), Num("SOUTH", 2 * i),
                      Word("BOARD", "follows")>> \o BoardLines(i) \o <<Blank>>
               [] f.defect = "shortrow" ->
                    RoundSection(number, i, 2 * i,
                        WithFirstRow(i, Row([c \in 1..BoardCols - 1 |-> "."])))
               [] f.defect = "badchar" ->
                    RoundSection(number, i, 2 * i,
                        WithFirstRow(i, Row([c \in 1..BoardCols |->
                                                IF c = BoardCols THEN "?" ELSE "."])))
               [] f.defect = "noround" ->
                    <<Blank, Word("TURN", "x"), Num("NORTH", i), Num("SOUTH", 2 * i), Sep25>>
                    \o BoardLines(i) \o <<Blank>>
               [] f.defect = "noscore" ->
                    <<Blank, Num("ROUND", number), Word("NORTH", "x"), Num("SOUTH", 2 * i),
                      Sep25>> \o BoardLines(i) \o <<Blank>>
               [] f.defect = "extrarow" ->
                    RoundSection(number, i, 2 * i,
                        BoardLines(i) \o <<Row([c \in 1..BoardCols |-> "."])>>)
               [] f.defect = "latesep" ->
                    <<Blank, Num("ROUND", number), Num("NORTH", i), Num("SOUTH", 2 * i),
                      Word("BOARD", "follows"), Sep25>>
                    \o SubSeq(BoardLines(i), 1, BoardRows - 1) \o <<Blank>>
               [] f.defect = "ants" ->
                    RoundSection(number, i, 2 * i,
                        WithFirstRow(i, Row([c \in 1..BoardCols |->
                                                AntCells[1 + (c % Len(AntCells))]])))
               [] f.defect = "five" ->
                    RoundSection(number, i, 2 * i,
                        WithFirstRow(i, Row([c \in 1..BoardCols |->
                                                CASE c = 1 -> "I"
                                                  [] c = 2 -> "J"
                                                  [] OTHER -> "."])))
               [] OTHER -> good

Sections(f) ==
    <<IF f.defect = "nosize"
      THEN <<Word("GAME", "antcode"), Blank>>
      ELSE <<Num2("SIZE", BoardRows, BoardCols), Blank>>>>
    \o [i \in 1..f.count |-> SectionOf(f, i)]
    \o <<CASE f.defect = "nowinner" -> <<Blank, Word("DRAW", "game"), Blank>>
           [] f.defect = "longfooter" ->
                <<Blank, Word("WINNER", "NORTH")>>
                \o [j \in 1..(3 + BoardRows) |-> Word("TOTAL", "points")]
                \o <<Blank>>
           [] OTHER -> <<Blank, Word("WINNER", "NORTH"), Blank>>>>

File(numbering, count, defect, at) ==
    [numbering |-> numbering, count |-> count, defect |-> defect, at |-> at]

\* The dialog returns no file name, or the name of a file that does not exist.
NoFile == File("", 0, "nofile", 0)

\* How far from RequiredRounds the round count of a miscounted file is.
MaxMiscount == 1

WellFormedFiles ==
    {File(n, RequiredRounds, "none", 0) : n \in {"asc", "desc", "same"}}
    \cup {File("asc", RequiredRounds, "ants", RequiredRounds)}

MiscountedFiles ==
    {File("asc", RequiredRounds - d, "none", 0) : d \in 1..MaxMiscount}
    \cup {File("asc", RequiredRounds + d, "none", 0) : d \in 1..MaxMiscount}
    \cup {File("asc", RequiredRounds, "extrarow", 1)}

MalformedFiles ==
    {File("asc", RequiredRounds, d, 0) : d \in {"nosize", "nowinner"}}
    \cup {File("asc", RequiredRounds, d, at) :
            d \in {"nosep", "shortrow", "badchar", "noround", "noscore"},
            at \in {RequiredRounds}}
    \cup {File("asc", RequiredRounds, "badchar", 1)}

AllFiles == WellFormedFiles \cup MiscountedFiles \cup MalformedFiles

\* A log whose first round section has a line between its SOUTH line and its
\* separator and one board row fewer: 4 + rows lines as every section has.
LateSepLog == File("asc", RequiredRounds, "latesep", 1)

\* A log whose footer has, besides its WINNER line, 3 + rows lines more.
LongFooterLog == File("asc", RequiredRounds, "longfooter", 0)

OddFiles == {LateSepLog, LongFooterLog}

\* A log of the five-a-side variant: the first row of its first board holds the
\* ants I and J.
FiveAntLog == File("asc", RequiredRounds, "five", 1)

\* The parse of every file the dialog can return.
Parsed == [f \in AllFiles \cup OddFiles \cup {FiveAntLog} |-> ParseLog(Sections(f))]

(***************************************************************************)
(* Messages and the command table                                          *)
(***************************************************************************)
\* Message(message, data): data is the (key, value) pair of a config message.
Message(name) == [message |-> name, key |-> "", val |-> PyNone]
ConfigMessage(key, val) == [message |-> "config", key |-> key, val |-> val]

\* What a registered executor does: put a message, print help, run update_config,
\* or set the running event.
Put(name) == [kind |-> "put", msg |-> name]
Registrations ==
    <<[command |-> "help", aliases |-> <<>>, executor |-> [kind |-> "help", msg |-> ""]],
      [command |-> "config", aliases |-> <<>>, executor |-> [kind |-> "config", msg |-> ""]],
      [command |-> "load", aliases |-> <<>>, executor |-> Put("load")],
      [command |-> "toggle", aliases |-> <<"">>, executor |-> Put("toggle")],
      [command |-> "pause", aliases |-> <<>>, executor |-> Put("pause")],
      [command |-> "play", aliases |-> <<>>, executor |-> Put("play")],
      [command |-> "skip-start", aliases |-> <<"ss", "aa">>, executor |-> Put("skip-start")],
      [command |-> "step-back", aliases |-> <<"step-backward", "sb", "a">>,
       executor |-> Put("step-back")],
      [command |-> "step-forward", aliases |-> <<"step-front", "step", "sf", "d", "s">>,
       executor |-> Put("step-forward")],
      [command |-> "skip-end", aliases |-> <<"se", "dd">>, executor |-> Put("skip-end")],
      [command |-> "steps", aliases |-> <<>>, executor |-> Put("steps")],
      [command |-> "score", aliases |-> <<>>, executor |-> Put("score")],
      [command |-> "winner", aliases |-> <<>>, executor |-> Put("winner")],
      [command |-> "generate", aliases |-> <<"gen">>, executor |-> Put("generate")],
      [command |-> "quit", aliases |-> <<"exit">>, executor |-> [kind |-> "quit", msg |-> ""]]>>

\* register_command: the primary name, then each alias as an is_alias copy.  It
\* raises KeyError when the primary name is taken; no registration of __init__ is.
RegisterCommand(table, c) ==
    LET names == {c.command} \cup {c.aliases[i] : i \in 1..Len(c.aliases)}
    IN  [t \in DOMAIN table \cup names |->
            IF t \in {c.aliases[i] : i \in 1..Len(c.aliases)}
            THEN [command |-> c.command, executor |-> c.executor, is_alias |-> TRUE]
            ELSE IF t = c.command
            THEN [command |-> c.command, executor |-> c.executor, is_alias |-> FALSE]
            ELSE table[t]]

RECURSIVE RegisterAll(_, _)
RegisterAll(table, cs) ==
    IF cs = <<>> THEN table ELSE RegisterAll(RegisterCommand(table, Head(cs)), Tail(cs))

\* A variant of Commands with one more registration, whose alias `s` is already
\* an alias of step-forward.
CommandsWithClash ==
    RegisterAll(<<>>, Registrations \o
        <<[command |-> "slower", aliases |-> <<"s">>, executor |-> Put("pause")]>>)

\* CommandManager.commands after __init__.
Commands == RegisterAll(<<>>, Registrations)

(***************************************************************************)
(* The config command                                                      *)
(***************************************************************************)
\* A typed value: digits (lex "int"), digits with a point (lex "dec"), any other
\* word, or a blank line.
IntText(n) == [lex |-> "int", n |-> n, w |-> ""]
DecText(tenths) == [lex |-> "dec", n |-> tenths, w |-> ""]
WordText(w) == [lex |-> "word", n |-> 0, w |-> w]
BlankText == [lex |-> "blank", n |-> 0, w |-> ""]

\* update_config: float() when the text holds a point, else int(); on ValueError
\* "true"/"false" become a bool, "none" becomes None, anything else stays a str.
ConvertValue(text) ==
    CASE text.lex = "dec" -> PyFloat(text.n)
      [] text.lex = "int" -> PyInt(text.n)
      [] text.lex = "word" /\ text.w \in {"true", "false"} -> PyBool(text.w = "true")
      [] text.lex = "word" /\ text.w = "none" -> PyNone
      [] OTHER -> PyStr(1)

\* difflib.SequenceMatcher(None, key_name, key): the matched characters M of the
\* typed name against each settings key; ratio() is 2 * M / (len(a) + len(b)).
KeyTexts == {"cellsize", "autosave", "stepspersecond", "pause", "e", "ea", "zzz"}

TextLen(text) ==
    CASE text = "cellsize" -> 8 [] text = "autosave" -> 8
      [] text = "stepspersecond" -> 14 [] text = "pause" -> 5
      [] text = "e" -> 1 [] text = "ea" -> 2 [] text = "zzz" -> 3

KeyLen(key) ==
    CASE key = "pauseOnStep" -> 11 [] key = "stepsPerSecond" -> 14
      [] key = "cellSize" -> 8 [] key = "autoSave" -> 8
      [] key = "stopOnLastStep" -> 14 [] key = "fancyGraphics" -> 13
      [] key = "showTopBar" -> 10

MatchedChars(text) ==
    CASE text = "cellsize"       -> <<2, 1, 7, 1, 1, 2, 1>>
      [] text = "autosave"       -> <<4, 2, 1, 7, 4, 2, 1>>
      [] text = "stepspersecond" -> <<4, 12, 2, 2, 4, 1, 3>>
      [] text = "pause"          -> <<5, 3, 1, 3, 4, 2, 2>>
      [] text = "e"              -> <<1, 1, 1, 1, 1, 0, 0>>
      [] text = "ea"             -> <<1, 1, 1, 1, 1, 1, 1>>
      [] text = "zzz"            -> <<0, 0, 1, 0, 0, 0, 0>>

\* A ratio as <<numerator, denominator>>.
Ratio(text, i) == <<2 * MatchedChars(text)[i], TextLen(text) + KeyLen(KeyOrder[i])>>
RatioLess(a, b) == a[1] * b[2] < b[1] * a[2]
\* a - b < p / q
DiffLess(a, b, p, q) == (a[1] * b[2] - b[1] * a[2]) * q < p * a[2] * b[2]

\* The positions in KeyOrder of the keys of self.settings.data, in dict order.
DataKeyPositions(d) == {i \in 1..Len(KeyOrder) : KeyOrder[i] \in DOMAIN d}

\* A variant of GetBestMatchKey without the test on the spread of the scores.
GetBestMatchKeyNoSpreadTest(text, d) ==
    LET pos == DataKeyPositions(d)
        best == CHOOSE i \in pos :
                    /\ \A j \in pos : ~RatioLess(Ratio(text, i), Ratio(text, j))
                    /\ \A j \in pos :
                          (j < i) => RatioLess(Ratio(text, j), Ratio(text, i))
    IN  IF pos = {} THEN None
        ELSE IF RatioLess(Ratio(text, best), <<2, 10>>) THEN None
        ELSE Some(KeyOrder[best])

\* get_best_match_key: None for `False`, else the best-matching key.  sorted() is
\* stable, so among equal best scores the first key in dict order is taken.
GetBestMatchKey(text, d) ==
    LET pos == DataKeyPositions(d)
        best == CHOOSE i \in pos :
                    /\ \A j \in pos : ~RatioLess(Ratio(text, i), Ratio(text, j))
                    /\ \A j \in pos :
                          (j < i) => RatioLess(Ratio(text, j), Ratio(text, i))
        worst == CHOOSE i \in pos : \A j \in pos : ~RatioLess(Ratio(text, j), Ratio(text, i))
        max == Ratio(text, best)
        min == Ratio(text, worst)
    IN  IF pos = {} THEN None
        ELSE IF RatioLess(max, <<2, 10>>)
                \/ (DiffLess(max, min, 1, 10) /\ RatioLess(max, <<3, 10>>))
        THEN None
        ELSE Some(KeyOrder[best])

\* A typed line: the command token and, for config, how the command is used
\* (mode "args": `config <key> [<value>]`, the value prompted for when not given;
\* "modify", "query", "view": the options of the menu), the key name and the value.
Line(cmd) == [cmd |-> cmd, mode |-> "", key |-> "", value |-> BlankText]
\* Before the first line is typed.
NoLine == [cmd |-> "<none>", mode |-> "", key |-> "", value |-> BlankText]
ConfigLine(mode, key, value) == [cmd |-> "config", mode |-> mode, key |-> key, value |-> value]

\* update_config: what it returns ("True", "False", or "KeyError" when it raises)
\* and the message it puts, if any.
UpdateConfig(line, d) ==
    LET matched == GetBestMatchKey(line.key, d) IN
    CASE line.mode \in {"args", "modify"} ->
            IF line.key = "" \/ matched = None \/ line.value.lex = "blank"
            THEN [returns |-> "False", put |-> None]
            ELSE [returns |-> "True",
                  put |-> Some(ConfigMessage(matched[1], ConvertValue(line.value)))]
      [] line.mode = "query" ->
            IF line.key = "" THEN [returns |-> "False", put |-> None]
            ELSE IF matched = None THEN [returns |-> "KeyError", put |-> None]
            ELSE [returns |-> "False", put |-> None]
      [] OTHER -> [returns |-> "False", put |-> None]

\* A variant of ExecuteCommand whose quit executor also puts a message.
ExecuteCommandQuitPuts(line, d) ==
    IF line.cmd \notin DOMAIN Commands
    THEN [returns |-> "KeyError", put |-> None, set_running |-> FALSE]
    ELSE LET ex == Commands[line.cmd].executor IN
         CASE ex.kind = "help" -> [returns |-> "True", put |-> None, set_running |-> FALSE]
           [] ex.kind = "quit" ->
                [returns |-> "None", put |-> Some(Message("quit")), set_running |-> TRUE]
           [] ex.kind = "put" ->
                [returns |-> "None", put |-> Some(Message(ex.msg)), set_running |-> FALSE]
           [] ex.kind = "config" ->
                [returns |-> UpdateConfig(line, d).returns,
                 put |-> UpdateConfig(line, d).put, set_running |-> FALSE]

\* A variant of ExecuteCommand that treats an unknown token as a message to put.
ExecuteCommandUnknownPuts(line, d) ==
    IF line.cmd \notin DOMAIN Commands
    THEN [returns |-> "None", put |-> Some(Message(line.cmd)), set_running |-> FALSE]
    ELSE LET ex == Commands[line.cmd].executor IN
         CASE ex.kind = "help" -> [returns |-> "True", put |-> None, set_running |-> FALSE]
           [] ex.kind = "quit" -> [returns |-> "None", put |-> None, set_running |-> TRUE]
           [] ex.kind = "put" ->
                [returns |-> "None", put |-> Some(Message(ex.msg)), set_running |-> FALSE]
           [] ex.kind = "config" ->
                [returns |-> UpdateConfig(line, d).returns,
                 put |-> UpdateConfig(line, d).put, set_running |-> FALSE]

\* execute_command: the text of the KeyError it raises for an unknown token, as the
\* pieces of the f-string; get_console_input prints it.
NotFoundText(command) == <<"Command '", command, "' not found.">>

\* CommandManager.execute_command: what the call returns or raises, the message it
\* puts, and whether it sets the running event.
ExecuteCommand(line, d) ==
    IF line.cmd \notin DOMAIN Commands
    THEN [returns |-> "KeyError", put |-> None, set_running |-> FALSE]
    ELSE LET ex == Commands[line.cmd].executor IN
         CASE ex.kind = "help" -> [returns |-> "True", put |-> None, set_running |-> FALSE]
           [] ex.kind = "quit" -> [returns |-> "None", put |-> None, set_running |-> TRUE]
           [] ex.kind = "put" ->
                [returns |-> "None", put |-> Some(Message(ex.msg)), set_running |-> FALSE]
           [] ex.kind = "config" ->
                [returns |-> UpdateConfig(line, d).returns,
                 put |-> UpdateConfig(line, d).put, set_running |-> FALSE]

(***************************************************************************)
(* Construction: AntSettings.__init__ loads the settings file, then        *)
(* AntSimulation.__init__ sets the playback state; run() creates the       *)
(* running event and starts the console thread.  1000 // stepsPerSecond    *)
(* raises ZeroDivisionError when the loaded value is 0 (or False).         *)
(***************************************************************************)
SwitchInterval(d) ==
    IF d["stepsPerSecond"].t = "float"
    THEN FloorDiv(10000, d["stepsPerSecond"].v)
    ELSE FloorDiv(1000, d["stepsPerSecond"].v)

\* 1000 // stepsPerSecond raises ZeroDivisionError on 0, 0.0 and False, and
\* TypeError on a str or None.
IntervalRaises(d) ==
    \/ d["stepsPerSecond"].t \notin {"int", "bool", "float"}
    \/ d["stepsPerSecond"].v = 0

\* AntSettings("settings.json") and the rest of __init__: the settings, the switch
\* interval, and whether construction completes.
Constructed(file) ==
    LET l == Load(file)
        ok == l.raised = "" /\ ~IntervalRaises(l.data)
    IN  [data |-> l.data, type_hints |-> l.type_hints, storage |-> l.storage,
         map_switch_interval |-> IF ok THEN SwitchInterval(l.data) ELSE 0,
         rpc |-> IF ok THEN "loop" ELSE "crashed"]

InitFrom(startFiles) ==
    \E file \in startFiles :
        /\ data = Constructed(file).data
        /\ type_hints = Constructed(file).type_hints
        /\ storage = Constructed(file).storage
        /\ simulationPaused = TRUE
        /\ maps = None
        /\ board_size = None
        /\ winner = None
        /\ current_map_index = 0
        /\ map_data = BLANK_MAP
        /\ has_five_ants = FALSE
        /\ filename = NoFile
        /\ map_switch_interval = Constructed(file).map_switch_interval
        /\ since_switch = 0
        /\ running = FALSE
        /\ command_queue = <<>>
        /\ rpc = Constructed(file).rpc
        /\ message = Message("")
        /\ ipc = "loop"
        /\ commandList = NoLine

\* The process is alive: the main thread has neither left through exit() nor died
\* of an uncaught exception (the console thread is a daemon and ends with it).
Alive == rpc \notin {"done", "crashed"}

(***************************************************************************)
(* Playback operations of AntSimulation                                    *)
(***************************************************************************)
NoLog == maps = None \/ Len(maps[1]) = 0

Rounds == maps[1]

BoardAt(i) == Rounds[i + 1].board

\* reset_screen reads map_data[0]: IndexError on a board without rows.
ResetScreenRaises(board) == board = <<>>

\* A variant of TargetFrom that stops at the first and the last round.
TargetFromClamped(name, index) ==
    CASE name = "skip-start"   -> 0
      [] name = "step-back"    -> IF index = 0 THEN 0 ELSE index - 1
      [] name = "step-forward" -> Min(index + 1, Len(Rounds) - 1)
      [] name = "skip-end"     -> Len(Rounds) - 1

\* skip_start, step_backward, step_forward, skip_end: the cursor they set when
\* current_map_index is `index`.
TargetFrom(name, index) ==
    CASE name = "skip-start"   -> 0
      [] name = "step-back"    -> (index - 1) % Len(Rounds)
      [] name = "step-forward" -> (index + 1) % Len(Rounds)
      [] name = "skip-end"     -> Len(Rounds) - 1

\* A variant of Target that moves the same way whatever the command.
TargetAlwaysForward(name) == (current_map_index + 1) % Len(Rounds)

Target(name) == TargetFrom(name, current_map_index)

\* A variant of Navigate that moves the cursor and leaves the displayed board.
NavigateKeepsBoard(name) ==
    IF NoLog
    THEN UNCHANGED <<simulationPaused, current_map_index, map_data>>
    ELSE /\ simulationPaused' =
              IF Truthy(data["pauseOnStep"]) THEN TRUE ELSE simulationPaused
         /\ current_map_index' = Target(name)
         /\ UNCHANGED map_data

\* A variant of Navigate that pauses whatever pauseOnStep is.
NavigateAlwaysPauses(name) ==
    IF NoLog
    THEN UNCHANGED <<simulationPaused, current_map_index, map_data>>
    ELSE /\ simulationPaused' = TRUE
         /\ current_map_index' = Target(name)
         /\ map_data' = BoardAt(Target(name))

Navigate(name) ==
    IF NoLog
    THEN UNCHANGED <<simulationPaused, current_map_index, map_data>>
    ELSE /\ simulationPaused' =
              IF Truthy(data["pauseOnStep"]) THEN TRUE ELSE simulationPaused
         /\ current_map_index' = Target(name)
         /\ map_data' = BoardAt(Target(name))

\* A variant of ResetToBlank that leaves the cursor where it was.
ResetToBlankKeepingCursor ==
    /\ board_size' = <<None, None>>
    /\ winner' = None
    /\ maps' = None
    /\ map_data' = BLANK_MAP
    /\ UNCHANGED current_map_index

\* load_maps: the dialog returns no file (cancel) or one of `files`.
ResetToBlank ==
    /\ board_size' = <<None, None>>
    /\ winner' = None
    /\ maps' = None
    /\ current_map_index' = 0
    /\ map_data' = BLANK_MAP

\* A variant of LoadFile that keeps the cursor where it was.
LoadFileKeepingCursor(f) ==
    /\ has_five_ants' = Parsed[f].five
    /\ IF Parsed[f].ok
       THEN /\ board_size' = Parsed[f].board_size
            /\ winner' = Parsed[f].winner
            /\ maps' = Some(Parsed[f].rounds)
            /\ current_map_index' = current_map_index
            /\ map_data' = Parsed[f].rounds[current_map_index + 1].board
       ELSE ResetToBlank

\* A variant of LoadFile whose error handler leaves the winner of the previous log.
LoadFileKeepingWinner(f) ==
    /\ has_five_ants' = Parsed[f].five
    /\ IF Parsed[f].ok
       THEN /\ board_size' = Parsed[f].board_size
            /\ winner' = Parsed[f].winner
            /\ maps' = Some(Parsed[f].rounds)
            /\ current_map_index' = 0
            /\ map_data' = Parsed[f].rounds[1].board
       ELSE /\ board_size' = <<None, None>>
            /\ maps' = None
            /\ current_map_index' = 0
            /\ map_data' = BLANK_MAP
            /\ UNCHANGED winner

\* The try block of load_maps and its error handler, for the file f.
LoadFile(f) ==
    /\ has_five_ants' = Parsed[f].five
    /\ IF Parsed[f].ok
       THEN /\ board_size' = Parsed[f].board_size
            /\ winner' = Parsed[f].winner
            /\ maps' = Some(Parsed[f].rounds)
            /\ current_map_index' = 0
            /\ map_data' = Parsed[f].rounds[1].board
       ELSE ResetToBlank

LoadMaps(files) ==
    /\ \E f \in files \cup {NoFile} :
          /\ filename' = f
          /\ IF f = NoFile
             THEN /\ has_five_ants' = FALSE
                  /\ ResetToBlank
             ELSE LoadFile(f)
    /\ rpc' = IF ResetScreenRaises(map_data') THEN "crashed" ELSE "ack"
    /\ UNCHANGED <<data, type_hints, storage, simulationPaused, map_switch_interval, since_switch>>

\* A variant of ApplyConfig that leaves the switch interval as it was.
ApplyConfigKeepsInterval ==
    LET r == SetItem(data, type_hints, storage, message.key, message.val) IN
    /\ data' = r.data
    /\ storage' = r.storage
    /\ rpc' = IF \/ r.raised = "KeyError"
                 \/ r.raised = "" /\ message.key = "stepsPerSecond"
                    /\ IntervalRaises(r.data)
              THEN "crashed"
              ELSE "ack"
    /\ UNCHANGED <<type_hints, simulationPaused, maps, board_size, winner,
                   current_map_index, map_data, has_five_ants, filename, since_switch,
                   map_switch_interval>>

\* The `config` branch of run(): __setitem__, then reset_screen or the new interval.
\* Only TypeError is caught.
ApplyConfig ==
    LET r == SetItem(data, type_hints, storage, message.key, message.val) IN
    /\ data' = r.data
    /\ storage' = r.storage
    /\ map_switch_interval' =
          IF r.raised = "" /\ message.key = "stepsPerSecond" /\ ~IntervalRaises(r.data)
          THEN SwitchInterval(r.data)
          ELSE map_switch_interval
    /\ rpc' = IF \/ r.raised = "KeyError"
                 \/ r.raised = "" /\ message.key = "stepsPerSecond"
                    /\ IntervalRaises(r.data)
              THEN "crashed"
              ELSE "ack"
    /\ UNCHANGED <<type_hints, simulationPaused, maps, board_size, winner,
                   current_map_index, map_data, has_five_ants, filename, since_switch>>

\* A variant of ApplyPlayback in which toggle, pause and play are not refused
\* while maps is None.
ApplyPlaybackUnguarded ==
    /\ CASE message.message = "toggle" ->
                /\ simulationPaused' = ~simulationPaused
                /\ UNCHANGED <<current_map_index, map_data>>
          [] message.message = "pause" ->
                /\ simulationPaused' = TRUE
                /\ UNCHANGED <<current_map_index, map_data>>
          [] message.message = "play" ->
                /\ simulationPaused' = FALSE
                /\ UNCHANGED <<current_map_index, map_data>>
          [] message.message \in {"skip-start", "step-back", "step-forward", "skip-end"} ->
                Navigate(message.message)
          [] OTHER -> UNCHANGED <<simulationPaused, current_map_index, map_data>>
    /\ rpc' = "ack"
    /\ UNCHANGED <<data, type_hints, storage, maps, board_size, winner, has_five_ants,
                   filename, map_switch_interval, since_switch>>

\* A variant of ApplyPlayback in which play toggles.
ApplyPlaybackPlayToggles ==
    /\ IF maps = None
       THEN UNCHANGED <<simulationPaused, current_map_index, map_data>>
       ELSE CASE message.message \in {"toggle", "play"} ->
                    /\ simulationPaused' = ~simulationPaused
                    /\ UNCHANGED <<current_map_index, map_data>>
              [] message.message = "pause" ->
                    /\ simulationPaused' = TRUE
                    /\ UNCHANGED <<current_map_index, map_data>>
              [] message.message \in {"skip-start", "step-back", "step-forward", "skip-end"} ->
                    Navigate(message.message)
              [] OTHER -> UNCHANGED <<simulationPaused, current_map_index, map_data>>
    /\ rpc' = "ack"
    /\ UNCHANGED <<data, type_hints, storage, maps, board_size, winner, has_five_ants,
                   filename, map_switch_interval, since_switch>>

\* A variant of ApplyPlayback in which skip-start drops the rounds before the cursor
\* instead of moving the cursor.
ApplyPlaybackSkipStartDrops ==
    /\ IF maps = None
       THEN UNCHANGED <<simulationPaused, current_map_index, map_data, maps>>
       ELSE CASE message.message = "toggle" ->
                    /\ simulationPaused' = ~simulationPaused
                    /\ UNCHANGED <<current_map_index, map_data, maps>>
              [] message.message = "pause" ->
                    /\ simulationPaused' = TRUE
                    /\ UNCHANGED <<current_map_index, map_data, maps>>
              [] message.message = "play" ->
                    /\ simulationPaused' = FALSE
                    /\ UNCHANGED <<current_map_index, map_data, maps>>
              [] message.message = "skip-start" ->
                    /\ maps' = Some(SubSeq(Rounds, current_map_index + 1, Len(Rounds)))
                    /\ current_map_index' = 0
                    /\ UNCHANGED <<simulationPaused, map_data>>
              [] message.message \in {"step-back", "step-forward", "skip-end"} ->
                    /\ Navigate(message.message)
                    /\ UNCHANGED maps
              [] OTHER -> UNCHANGED <<simulationPaused, current_map_index, map_data, maps>>
    /\ rpc' = "ack"
    /\ UNCHANGED <<data, type_hints, storage, board_size, winner, has_five_ants,
                   filename, map_switch_interval, since_switch>>

\* The last branch of run(): the playback commands, refused while maps is None.
ApplyPlayback ==
    /\ IF maps = None
       THEN UNCHANGED <<simulationPaused, current_map_index, map_data>>
       ELSE CASE message.message = "toggle" ->
                    /\ simulationPaused' = ~simulationPaused
                    /\ UNCHANGED <<current_map_index, map_data>>
              [] message.message = "pause" ->
                    /\ simulationPaused' = TRUE
                    /\ UNCHANGED <<current_map_index, map_data>>
              [] message.message = "play" ->
                    /\ simulationPaused' = FALSE
                    /\ UNCHANGED <<current_map_index, map_data>>
              [] message.message \in {"skip-start", "step-back", "step-forward", "skip-end"} ->
                    Navigate(message.message)
              [] OTHER -> UNCHANGED <<simulationPaused, current_map_index, map_data>>
    /\ rpc' = "ack"
    /\ UNCHANGED <<data, type_hints, storage, maps, board_size, winner, has_five_ants,
                   filename, map_switch_interval, since_switch>>

(***************************************************************************)
(* The main thread: run()                                                  *)
(***************************************************************************)
\* `while not self.running.is_set()`
RenderLoopCheck ==
    /\ rpc = "loop"
    /\ rpc' = IF running THEN "exit" ELSE "events"
    /\ UNCHANGED <<settingsVars, logVars, map_switch_interval, since_switch,
                   running, command_queue, message, ipc, commandList>>

\* clock.tick and the event loop: a window-close event sets the running event.
RenderEvents ==
    /\ rpc = "events"
    /\ \E closed \in BOOLEAN : running' = (running \/ closed)
    /\ rpc' = "drain"
    /\ UNCHANGED <<settingsVars, logVars, map_switch_interval, since_switch,
                   command_queue, message, ipc, commandList>>

\* `while not self.command_queue.empty()`
RenderDrainCheck ==
    /\ rpc = "drain"
    /\ rpc' = IF command_queue = <<>> THEN "advance" ELSE "get"
    /\ UNCHANGED <<settingsVars, logVars, map_switch_interval, since_switch,
                   running, command_queue, message, ipc, commandList>>

\* `message = self.command_queue.get()`: blocks while the queue is empty.
RenderGet ==
    /\ rpc = "get"
    /\ command_queue # <<>>
    /\ message' = Head(command_queue)
    /\ command_queue' = Tail(command_queue)
    /\ rpc' = "apply"
    /\ UNCHANGED <<settingsVars, logVars, map_switch_interval, since_switch, running, ipc, commandList>>

\* The body of the drain loop for the dequeued message.
RenderApply(files) ==
    /\ rpc = "apply"
    /\ CASE message.message = "load" -> LoadMaps(files)
         [] message.message = "generate" ->
                /\ rpc' = "ack"
                /\ UNCHANGED <<settingsVars, logVars, map_switch_interval, since_switch>>
         [] message.message = "config" -> ApplyConfig
         [] OTHER -> ApplyPlayback
    /\ UNCHANGED <<running, command_queue, message, ipc, commandList>>

\* `if self.command_queue.empty()` after the message is applied
RenderAckCheck ==
    /\ rpc = "ack"
    /\ rpc' = IF command_queue = <<>> THEN "put" ELSE "drain"
    /\ UNCHANGED <<settingsVars, logVars, map_switch_interval, since_switch,
                   running, command_queue, message, ipc, commandList>>

\* `self.command_queue.put(Message("CONTINUE")); break`
RenderPutContinue ==
    /\ rpc = "put"
    /\ command_queue' = Append(command_queue, Message("CONTINUE"))
    /\ rpc' = "advance"
    /\ UNCHANGED <<settingsVars, logVars, map_switch_interval, since_switch,
                   running, message, ipc, commandList>>

\* MapComponent.draw reads settings keys by the cells it draws and for a hovered
\* cell; a key the mapping lacks raises KeyError, which nothing catches.
KeysDrawn(board, hover) ==
    LET cells == {board[r][c] : r \in 1..Len(board), c \in 1..Len(board[1])} IN
    {"showTopBar", "cellSize", "fancyGraphics"}
    \cup (IF cells \cap {"1", "2", "3", "4", "5", "6", "7", "8", "9"} # {}
          THEN {"foodpileInfo"} ELSE {})
    \cup (IF cells \cap {"@", "X"} # {} THEN {"anthillInfo"} ELSE {})
    \cup (IF cells \cap {"A", "B", "C", "D", "E", "F", "G", "H",
                         "a", "b", "c", "d", "e", "f", "g", "h"} # {}
          THEN {"antInfo"} ELSE {})
    \cup (IF hover THEN {"hoverOverlay", "tooltips"} ELSE {})

DrawRaises(board, hover) == ~(KeysDrawn(board, hover) \subseteq DOMAIN data)

\* The longest time since the last switch that the model tells apart (ms).
MaxElapsed == 200

\* A variant of RenderAdvance that does not reset the switch timer.
RenderAdvanceKeepsTimer(elapsedSamples, hovers) ==
    /\ rpc = "advance"
    /\ \E passed \in elapsedSamples :
          LET now == Min(since_switch + passed, MaxElapsed) IN
          /\ since_switch' = now
          /\ IF maps # None /\ now >= map_switch_interval /\ ~simulationPaused
             THEN /\ current_map_index' = (current_map_index + 1) % Len(Rounds)
                  /\ map_data' = BoardAt((current_map_index + 1) % Len(Rounds))
                  /\ simulationPaused' =
                        (/\ (current_map_index + 1) % Len(Rounds) = Len(Rounds) - 1
                         /\ Truthy(data["stopOnLastStep"]))
             ELSE UNCHANGED <<current_map_index, map_data, simulationPaused>>
    /\ \E hover \in hovers :
          rpc' = IF DrawRaises(map_data', hover) THEN "crashed" ELSE "loop"
    /\ UNCHANGED <<data, type_hints, storage, maps, board_size, winner, has_five_ants,
                   filename, map_switch_interval, running, command_queue, message, ipc,
                   commandList>>

\* The automatic advance, then the drawing of the frame.  `elapsedSamples` is what
\* can pass between two ticks, in milliseconds; `hovers` is whether the mouse can
\* be over a cell.
RenderAdvance(elapsedSamples, hovers) ==
    /\ rpc = "advance"
    /\ \E passed \in elapsedSamples :
          LET now == Min(since_switch + passed, MaxElapsed) IN
          IF maps # None /\ now >= map_switch_interval /\ ~simulationPaused
          THEN /\ since_switch' = 0
               /\ current_map_index' = (current_map_index + 1) % Len(Rounds)
               /\ map_data' = BoardAt((current_map_index + 1) % Len(Rounds))
               /\ simulationPaused' =
                     (/\ (current_map_index + 1) % Len(Rounds) = Len(Rounds) - 1
                      /\ Truthy(data["stopOnLastStep"]))
          ELSE /\ since_switch' = now
               /\ UNCHANGED <<current_map_index, map_data, simulationPaused>>
    /\ \E hover \in hovers :
          rpc' = IF DrawRaises(map_data', hover) THEN "crashed" ELSE "loop"
    /\ UNCHANGED <<data, type_hints, storage, maps, board_size, winner, has_five_ants,
                   filename, map_switch_interval, running, command_queue, message, ipc,
                   commandList>>

\* A variant of RenderExit that saves only when autoSave is on.
RenderExitIfAutoSave ==
    /\ rpc = "exit"
    /\ storage' = IF Truthy(data["autoSave"]) THEN Save(data, type_hints) ELSE storage
    /\ rpc' = "done"
    /\ UNCHANGED <<data, type_hints, simulationPaused, logVars, map_switch_interval, since_switch,
                   running, command_queue, message, ipc, commandList>>

\* exit(): save the settings, quit.
RenderExit ==
    /\ rpc = "exit"
    /\ storage' = Save(data, type_hints)
    /\ rpc' = "done"
    /\ UNCHANGED <<data, type_hints, simulationPaused, logVars, map_switch_interval, since_switch,
                   running, command_queue, message, ipc, commandList>>

\* A terminal interrupt: KeyboardInterrupt is raised in the main thread wherever it
\* is in the loop, and the handler calls exit().
Interrupt ==
    /\ rpc \in {"loop", "events", "drain", "get", "apply", "ack", "put", "advance"}
    /\ rpc' = "exit"
    /\ UNCHANGED <<settingsVars, logVars, map_switch_interval, since_switch,
                   running, command_queue, message, ipc, commandList>>

(***************************************************************************)
(* The console thread: get_console_input()                                 *)
(***************************************************************************)
\* `while not self.running.is_set()`
InputLoopCheck ==
    /\ Alive
    /\ ipc = "loop"
    /\ ipc' = IF running THEN "ended" ELSE "prompt"
    /\ UNCHANGED <<settingsVars, logVars, map_switch_interval, since_switch,
                   running, command_queue, rpc, message, commandList>>

\* A variant of InputRead that prompts again without waiting for the render loop.
InputReadNoWait(lines) ==
    /\ Alive
    /\ ipc = "prompt"
    /\ \E line \in lines :
          LET r == ExecuteCommand(line, data) IN
          /\ commandList' = line
          /\ command_queue' =
                IF r.put = None THEN command_queue ELSE Append(command_queue, r.put[1])
          /\ running' = (running \/ r.set_running)
          /\ ipc' = "loop"
    /\ UNCHANGED <<settingsVars, logVars, map_switch_interval, since_switch, rpc, message>>

\* A variant of InputRead in which the console thread itself flips the paused flag
\* when toggle is typed.
InputReadToggles(lines) ==
    /\ Alive
    /\ ipc = "prompt"
    /\ \E line \in lines :
          LET r == ExecuteCommand(line, data) IN
          /\ commandList' = line
          /\ command_queue' =
                IF r.put = None THEN command_queue ELSE Append(command_queue, r.put[1])
          /\ running' = (running \/ r.set_running)
          /\ simulationPaused' =
                IF line.cmd = "toggle" THEN ~simulationPaused ELSE simulationPaused
          /\ ipc' = IF r.returns \in {"False", "KeyError"} \/ line.cmd = "help"
                    THEN "loop"
                    ELSE "wait"
    /\ UNCHANGED <<data, type_hints, storage, logVars, map_switch_interval, since_switch,
                   rpc, message>>

\* input() returns a line, which is executed: `continue` when execute_command
\* returns False or raises KeyError or the command is help, else wait.
InputRead(lines) ==
    /\ Alive
    /\ ipc = "prompt"
    /\ \E line \in lines :
          LET r == ExecuteCommand(line, data) IN
          /\ commandList' = line
          /\ command_queue' =
                IF r.put = None THEN command_queue ELSE Append(command_queue, r.put[1])
          /\ running' = (running \/ r.set_running)
          /\ ipc' = IF r.returns \in {"False", "KeyError"} \/ line.cmd = "help"
                    THEN "loop"
                    ELSE "wait"
    /\ UNCHANGED <<settingsVars, logVars, map_switch_interval, since_switch, rpc, message>>

\* input() raises EOFError: the thread ends.
InputEOF ==
    /\ Alive
    /\ ipc = "prompt"
    /\ ipc' = "ended"
    /\ UNCHANGED <<settingsVars, logVars, map_switch_interval, since_switch,
                   running, command_queue, rpc, message, commandList>>

\* A variant of InputSeeContinue that leaves the wait as soon as the queue holds
\* anything.
InputSeeAnything ==
    /\ Alive
    /\ ipc = "wait"
    /\ command_queue # <<>>
    /\ ipc' = "take"
    /\ UNCHANGED <<settingsVars, logVars, map_switch_interval, since_switch,
                   running, command_queue, rpc, message, commandList>>

\* The wait loop sees exactly [CONTINUE] in the queue.
InputSeeContinue ==
    /\ Alive
    /\ ipc = "wait"
    /\ [i \in 1..Len(command_queue) |-> command_queue[i].message] = <<"CONTINUE">>
    /\ ipc' = "take"
    /\ UNCHANGED <<settingsVars, logVars, map_switch_interval, since_switch,
                   running, command_queue, rpc, message, commandList>>

\* `self.command_queue.get()`: blocks while the queue is empty.
InputTake ==
    /\ Alive
    /\ ipc = "take"
    /\ command_queue # <<>>
    /\ command_queue' = Tail(command_queue)
    /\ ipc' = "loop"
    /\ UNCHANGED <<settingsVars, logVars, map_switch_interval, since_switch,
                   running, rpc, message, commandList>>

(***************************************************************************)
(* The life of the process: started on the settings file that is on disk,  *)
(* and started again after it has ended.                                   *)
(***************************************************************************)
\* AntSettings.__init__: self.data = {} and self.type_hints = {}
EmptyDict == [k \in {} |-> PyNone]

\* The process is not started yet: only the settings file exists.
NotStarted(startFiles) ==
    /\ storage \in startFiles
    /\ data = EmptyDict
    /\ type_hints = EmptyDict
    /\ simulationPaused = TRUE
    /\ maps = None
    /\ board_size = None
    /\ winner = None
    /\ current_map_index = 0
    /\ map_data = BLANK_MAP
    /\ has_five_ants = FALSE
    /\ filename = NoFile
    /\ map_switch_interval = 0
    /\ since_switch = 0
    /\ running = FALSE
    /\ command_queue = <<>>
    /\ rpc = "new"
    /\ message = Message("")
    /\ ipc = "unstarted"
    /\ commandList = NoLine

\* A variant of Construct that takes the paused flag from a simulationPaused entry
\* of the settings file when there is one.
ConstructReadsPaused ==
    /\ rpc = "new"
    /\ data' = Constructed(storage).data
    /\ type_hints' = Constructed(storage).type_hints
    /\ storage' = Constructed(storage).storage
    /\ simulationPaused' =
          IF /\ storage.kind = "map"
             /\ "simulationPaused" \in DOMAIN storage.entries
             /\ Len(storage.entries["simulationPaused"]) >= 2
          THEN Truthy(storage.entries["simulationPaused"][1])
          ELSE TRUE
    /\ command_queue' = <<>>
    /\ current_map_index' = 0
    /\ board_size' = None
    /\ winner' = None
    /\ maps' = None
    /\ has_five_ants' = FALSE
    /\ map_data' = BLANK_MAP
    /\ map_switch_interval' = Constructed(storage).map_switch_interval
    /\ rpc' = Constructed(storage).rpc
    /\ ipc' = IF Constructed(storage).rpc = "loop" THEN "loop" ELSE "unstarted"
    /\ UNCHANGED <<filename, since_switch, running, message, commandList>>

\* AntSimulation() and the start of run(): the settings are loaded from the file,
\* the interval is computed, the console thread is started.  An exception that
\* load() or __init__ does not catch ends the process.
Construct ==
    /\ rpc = "new"
    /\ data' = Constructed(storage).data
    /\ type_hints' = Constructed(storage).type_hints
    /\ storage' = Constructed(storage).storage
    /\ simulationPaused' = TRUE
    /\ command_queue' = <<>>
    /\ current_map_index' = 0
    /\ board_size' = None
    /\ winner' = None
    /\ maps' = None
    /\ has_five_ants' = FALSE
    /\ map_data' = BLANK_MAP
    /\ map_switch_interval' = Constructed(storage).map_switch_interval
    /\ rpc' = Constructed(storage).rpc
    /\ ipc' = IF Constructed(storage).rpc = "loop" THEN "loop" ELSE "unstarted"
    /\ UNCHANGED <<filename, since_switch, running, message, commandList>>

\* The program is started again after it has ended: nothing but the settings file
\* is carried over.
Restart ==
    /\ ~Alive
    /\ data' = EmptyDict
    /\ type_hints' = EmptyDict
    /\ simulationPaused' = TRUE
    /\ maps' = None
    /\ board_size' = None
    /\ winner' = None
    /\ current_map_index' = 0
    /\ map_data' = BLANK_MAP
    /\ has_five_ants' = FALSE
    /\ filename' = NoFile
    /\ map_switch_interval' = 0
    /\ since_switch' = 0
    /\ running' = FALSE
    /\ command_queue' = <<>>
    /\ rpc' = "new"
    /\ message' = Message("")
    /\ ipc' = "unstarted"
    /\ commandList' = NoLine
    /\ UNCHANGED storage

\* An environment: the lines the user can type, the files the dialog can return,
\* the elapsed times a tick can see, and whether the mouse can hover over a cell.
Env(lines, files, elapsed, hovers) ==
    [lines |-> lines, files |-> files, elapsed |-> elapsed, hovers |-> hovers]

RenderStep(env) ==
    \/ RenderLoopCheck
    \/ RenderEvents
    \/ RenderDrainCheck
    \/ RenderGet
    \/ RenderApply(env.files)
    \/ RenderAckCheck
    \/ RenderPutContinue
    \/ RenderAdvance(env.elapsed, env.hovers)
    \/ RenderExit

InputStep(env) ==
    \/ InputLoopCheck
    \/ InputRead(env.lines)
    \/ InputEOF
    \/ InputSeeContinue
    \/ InputTake

(***************************************************************************)
(* Specifications.  Each draws the typed lines, the files of the dialog,   *)
(* the time between ticks and the settings file found at start from its    *)
(* own sets.                                                               *)
(***************************************************************************)
\* Loading: every file, from every playback state; ticks come faster than the
\* switch interval.
LoadEnv ==
    Env({Line("load"), Line("toggle"), Line("skip-end")}, AllFiles, {0}, {FALSE})

Init == InitFrom({MissingFile})

Next ==
    \/ RenderStep(LoadEnv)
    \/ InputStep(LoadEnv)

Spec == Init /\ [][Next]_vars

(***************************************************************************)
(* Loading (checked under Spec)                                            *)
(***************************************************************************)
\* The files a claim speaks of, told from how the file was built.
DefectiveFiles ==
    {f \in AllFiles :
        \/ f.defect \in {"nosize", "nowinner", "nosep", "shortrow", "badchar"}
        \/ f.count # RequiredRounds}

WrongCountFiles == {f \in AllFiles : f.count # RequiredRounds \/ f.defect = "extrarow"}

SoundFiles == {f \in AllFiles : f.count = RequiredRounds /\ f.defect \in {"none", "ants"}}

\* The rounds of a sound file, read off its sections in file order.
ExpectedRounds(f) ==
    [i \in 1..f.count |->
        LET sec == SectionOf(f, i) IN
        Round(sec[2].n, sec[3].n, sec[4].n,
              [r \in 1..BoardRows |-> sec[5 + r].chars])]

NoLogState ==
    /\ maps = None
    /\ winner = None
    /\ board_size = <<None, None>>
    /\ current_map_index = 0
    /\ map_data = BLANK_MAP

\* C1: once the dialog has returned a file without SIZE, without WINNER, without
\* the inner separator, with a board line of wrong length or with an invalid
\* character, or with a wrong round count, the controller is in the no-log state:
\* no round list, no winner, no board size, cursor 0, the placeholder board.
C1_FailedLoadLeavesNoLog == filename \in DefectiveFiles => NoLogState

\* A defective file was loaded while a log was playing (only a loaded log can be
\* set playing), and the load has just been applied.
C1_Witness ==
    /\ filename \in DefectiveFiles
    /\ rpc = "ack" /\ message.message = "load"
    /\ ~simulationPaused
    /\ NoLogState

\* C2: once the dialog has returned a well-formed file of 200 round sections, the
\* round list is exactly those rounds in file order, whatever their ROUND numbers.
C2_RoundsInFileOrder ==
    filename \in SoundFiles => maps = Some(ExpectedRounds(filename))

\* A log whose ROUND numbers run backwards is loaded as it is.
C2_Witness ==
    /\ filename.numbering = "desc"
    /\ maps # None
    /\ Rounds[1].number = RequiredRounds
    /\ Rounds[RequiredRounds].number = 1

\* C3: a file whose count of accepted round sections is not 200 is rejected, and
\* no round list of another length is ever held.
C3_WrongCountRejected ==
    /\ filename \in WrongCountFiles => maps = None
    /\ maps # None => Len(Rounds) = RequiredRounds

\* A file with one round section too many was picked and rejected.
C3_Witness ==
    /\ filename.count > RequiredRounds
    /\ filename.defect = "none"
    /\ rpc = "ack" /\ message.message = "load"
    /\ maps = None

\* The step of the render loop that applies a load message and ends with a log.
LoadSucceeds ==
    /\ rpc = "apply"
    /\ message.message = "load"
    /\ rpc' # "apply"
    /\ maps' # None

\* C4 as claimed: every successful load leaves the controller paused at index 0.
C4_LoadEntersPaused ==
    [][LoadSucceeds => (simulationPaused' /\ current_map_index' = 0)]_vars

\* C4 as the code has it: every successful load puts the cursor at index 0 and
\* leaves the paused flag as it was.
C4_LoadKeepsPausedFlag ==
    [][LoadSucceeds => (current_map_index' = 0 /\ simulationPaused' = simulationPaused)]_vars

\* A log has just been loaded over a playing one: the controller is still playing.
C4_Witness ==
    /\ rpc = "ack" /\ message.message = "load"
    /\ maps # None
    /\ current_map_index = 0
    /\ ~simulationPaused

(***************************************************************************)
(* The console: every command token, the config command in each of its     *)
(* uses, no file behind the dialog.                                        *)
(***************************************************************************)
CommandLines == {Line(t) : t \in DOMAIN Commands} \cup {Line("bogus")}

ConsoleConfigLines ==
    {ConfigLine("args", "cellsize", IntText(20)),
     ConfigLine("args", "cellsize", BlankText),
     ConfigLine("args", "zzz", IntText(20)),
     ConfigLine("args", "", BlankText),
     ConfigLine("modify", "cellsize", IntText(20)),
     ConfigLine("query", "cellsize", BlankText),
     ConfigLine("query", "zzz", BlankText),
     ConfigLine("view", "", BlankText)}

ConsoleEnv == Env(CommandLines \cup ConsoleConfigLines, {}, {0}, {FALSE})

NextConsole ==
    \/ RenderStep(ConsoleEnv)
    \/ InputStep(ConsoleEnv)

SpecConsole == Init /\ [][NextConsole]_vars

\* Both threads are scheduled while they can run.
FairConsole ==
    /\ Init
    /\ [][NextConsole]_vars
    /\ WF_vars(RenderStep(ConsoleEnv))
    /\ WF_vars(InputStep(ConsoleEnv))

(***************************************************************************)
(* Settings: values of every type typed for an int key and a bool key,     *)
(* quit, a closed window, a terminal interrupt at any time.                *)
(***************************************************************************)
SettingsLines ==
    {ConfigLine("args", "cellsize", v) :
        v \in {IntText(20), DecText(15), WordText("true"), WordText("abc"),
               WordText("none")}}
    \cup {ConfigLine("args", "autosave", v) :
            v \in {IntText(20), DecText(15), WordText("false"), WordText("abc"),
                   WordText("none")}}
    \cup {Line("quit")}

SettingsEnv == Env(SettingsLines, {}, {0}, {FALSE})

NextSettings ==
    \/ RenderStep(SettingsEnv)
    \/ InputStep(SettingsEnv)
    \/ Interrupt

SpecSettings == Init /\ [][NextSettings]_vars

(***************************************************************************)
(* The handshake of the two threads (checked under SpecConsole)            *)
(***************************************************************************)
\* C5: when the render loop, having seen the queue non-empty, calls get(), a
\* message is there to take: the call does not block.
C5_DequeueFindsMessage == rpc = "get" => command_queue # <<>>

\* A command message is queued, or the render loop has taken it and has not yet
\* pushed the CONTINUE that answers it.
CommandInFlight ==
    \/ \E i \in 1..Len(command_queue) : command_queue[i].message # "CONTINUE"
    \/ rpc \in {"apply", "ack", "put"} /\ message.message # "CONTINUE"

\* The console thread leaves its wait loop.
InputLeavesWait == ipc = "take" /\ ipc' = "loop"

\* C6: while a command message is queued or being applied and not yet answered
\* with CONTINUE, the console thread is waiting: it is neither about to read a
\* line nor reading one; and what it takes from the queue to leave its wait is
\* the CONTINUE of the render loop, never a command.
C6_InputWaitsForContinue ==
    /\ [](CommandInFlight => ipc \notin {"loop", "prompt"})
    /\ [][InputLeavesWait => Head(command_queue).message = "CONTINUE"]_vars

\* The console thread prompts again after a command was applied and answered.
C6_Witness ==
    /\ ipc = "prompt"
    /\ commandList.cmd = "pause"
    /\ message.message = "pause"
    /\ rpc \in {"loop", "events", "drain", "advance"}
    /\ command_queue = <<>>

\* The user has typed quit (or exit) and the running event is set.
QuitTyped == commandList.cmd \in {"quit", "exit"} /\ running

\* C7: once quit is typed, the main thread eventually ends.
C7_QuitLeadsToExit == QuitTyped ~> ~Alive

(***************************************************************************)
(* Settings at exit and typed values (checked under SpecSettings)          *)
(***************************************************************************)
\* C8: when the main thread has left through exit(), the settings file holds the
\* in-memory settings, whatever autoSave is.
C8_ExitSaves == rpc = "done" => storage = Save(data, type_hints)

\* The process has exited with autoSave off and a cell size that was changed
\* after autoSave was turned off.
C8_Witness ==
    /\ rpc = "done"
    /\ ~Truthy(data["autoSave"])
    /\ data["cellSize"] = PyInt(20)
    /\ storage = Save(data, type_hints)

\* The console thread executes a line whose command token is registered.
ExecutesRecognized ==
    /\ ipc = "prompt"
    /\ ipc' \in {"loop", "wait"}
    /\ commandList'.cmd \in DOMAIN Commands

Enqueued == Len(command_queue') - Len(command_queue)

ConfigResolves(line, d) ==
    /\ line.mode \in {"args", "modify"}
    /\ line.key # ""
    /\ GetBestMatchKey(line.key, d) # None
    /\ line.value.lex # "blank"

ConfigApplied ==
    /\ rpc = "apply"
    /\ message.message = "config"
    /\ rpc' # "apply"

\* The runtime type of the value is not the type the key is tagged with.
TypeMismatch == message.key \in DOMAIN type_hints /\ message.val.t # type_hints[message.key]

\* C10: a set whose value type differs from the key's tag changes neither the
\* value, nor the tag, nor the file.
C10_MismatchChangesNothing ==
    [][ConfigApplied /\ TypeMismatch => UNCHANGED <<data, type_hints, storage>>]_vars

(***************************************************************************)
(* Starting: the process is started on every kind of settings file, the    *)
(* user sets the steps per second and the cell size and quits, and the     *)
(* process is started again on the file it left.                           *)
(***************************************************************************)
\* A settings file written by an earlier version: cellSize only, as [value, tag].
PartialFile == MappingFile([k \in {"cellSize"} |-> <<PyInt(20), "int">>])
\* A mapping whose cellSize entry is an array of one element.
ShortEntryFile == MappingFile([k \in {"cellSize"} |-> <<PyInt(20)>>])
\* A mapping whose cellSize entry is [true, "int"].
BoolAsIntFile == MappingFile([k \in {"cellSize"} |-> <<PyBool(TRUE), "int">>])

\* A mapping that holds a simulationPaused entry, which is no default key, and
\* showTopBar turned off.
PausedEntryFile ==
    MappingFile([k \in {"simulationPaused", "showTopBar"} |-> <<PyBool(FALSE), "bool">>])

\* A mapping whose pauseOnStep entry is ["abc", "str"].
WrongTagFile == MappingFile([k \in {"pauseOnStep"} |-> <<PyStr(1), "str">>])

StartFiles ==
    {MissingFile, CorruptFile, NumberFile, ArrayFile, PartialFile, ShortEntryFile,
     BoolAsIntFile, PausedEntryFile, WrongTagFile}

StartLines ==
    {ConfigLine("args", "stepspersecond", IntText(0)),
     ConfigLine("args", "stepspersecond", IntText(20)),
     ConfigLine("args", "cellsize", WordText("true")),
     Line("quit")}

StartEnv == Env(StartLines, {}, {0}, {FALSE})

InitStart == NotStarted(StartFiles)

NextStart ==
    \/ Construct
    \/ RenderStep(StartEnv)
    \/ InputStep(StartEnv)
    \/ Restart

SpecStart == InitStart /\ [][NextStart]_vars

\* The step that constructs the process from the settings file.
Constructs == rpc = "new" /\ rpc' # "new"

\* The files that are not a mapping of key to [value, type_tag] pairs.
UnusableFiles ==
    {MissingFile, CorruptFile, NumberFile, ArrayFile, ShortEntryFile}

\* C11: started on a settings file that is missing, not decodable, or decodable
\* but no mapping of keys to [value, tag] pairs, the load completes and the
\* settings are exactly the defaults, values and tags.
C11_UnusableFileGivesDefaults ==
    [][Constructs /\ storage \in UnusableFiles =>
          /\ rpc' = "loop"
          /\ data' = [k \in DefaultKeys |-> DEFAULT_SETTINGS[k][1]]
          /\ type_hints' = [k \in DefaultKeys |-> DEFAULT_SETTINGS[k][2]]]_vars

\* C12: every stored value has the runtime type that its stored tag names, and
\* the tag is one of bool, int, float, str.
C12_ValuesMatchTags ==
    \A k \in DOMAIN data :
        /\ k \in DOMAIN type_hints
        /\ type_hints[k] \in {"bool", "int", "float", "str"}
        /\ data[k].t = type_hints[k]

\* The settings file is one that the process wrote: every default key, each with
\* its value and tag.
PersistedByProcess == storage.kind = "map" /\ DOMAIN storage.entries = DefaultKeys

\* C14: applying a message never ends the render loop, and a process started on
\* settings that an earlier run persisted completes its start.
C14_NoMessageEndsLoop ==
    [][/\ rpc = "apply" => rpc' # "crashed"
       /\ Constructs /\ PersistedByProcess => rpc' = "loop"]_vars

\* The process is constructed from a settings file that holds a JSON object, and
\* load() returns.
LoadCompletes ==
    /\ Constructs
    /\ storage.kind = "map"
    /\ Load(storage).raised = ""

\* C26: when load() returns on a decodable file, the mapping has exactly the
\* default keys; each key has either its default value and tag, or the value of
\* its entry in the file, and that only when the value is of the type declared
\* for the key; and the file has been rewritten to equal the mapping.
C26_LoadNormalizes ==
    [][LoadCompletes =>
          /\ DOMAIN data' = DefaultKeys
          /\ DOMAIN type_hints' = DefaultKeys
          /\ \A k \in DefaultKeys :
                \/ /\ data'[k] = DEFAULT_SETTINGS[k][1]
                   /\ type_hints'[k] = DEFAULT_SETTINGS[k][2]
                \/ /\ k \in DOMAIN storage.entries
                   /\ data'[k] = storage.entries[k][1]
                   /\ data'[k].t = DEFAULT_SETTINGS[k][2]
                   /\ type_hints'[k] = DEFAULT_SETTINGS[k][2]
          /\ storage' = Save(data', type_hints')]_vars

\* C21: every process that completes its start is paused, has no log, the cursor
\* at 0 and the placeholder board, whatever the settings file held; the settings
\* mapping never has a simulationPaused key, nor has any file the process writes.
C21_StartsPausedWithoutLog ==
    /\ [][Constructs /\ rpc' = "loop" =>
             /\ simulationPaused'
             /\ maps' = None
             /\ current_map_index' = 0
             /\ map_data' = BLANK_MAP]_vars
    /\ []("simulationPaused" \notin DOMAIN data)
    /\ [][storage' # storage =>
             /\ storage'.kind = "map"
             /\ "simulationPaused" \notin DOMAIN storage'.entries]_vars

\* The process has started on a file that held simulationPaused = false: it is
\* paused, and the file it wrote on loading has no such entry.
C21_Witness ==
    /\ rpc = "loop"
    /\ commandList = NoLine
    /\ data["showTopBar"] = PyBool(FALSE)
    /\ simulationPaused
    /\ maps = None
    /\ storage = Save(data, type_hints)
    /\ "simulationPaused" \notin DOMAIN storage.entries

(***************************************************************************)
(* Failing commands: a log and a log with an invalid character behind the  *)
(* dialog; load, toggle, skip-end, score, a value of the wrong type for    *)
(* cellSize, and a token that is no command.                               *)
(***************************************************************************)
GoodLog == File("asc", RequiredRounds, "none", 0)
BadLog == File("asc", RequiredRounds, "badchar", 1)

FailureLines ==
    {Line("load"), Line("toggle"), Line("skip-end"), Line("score"), Line("bogus"),
     ConfigLine("args", "cellsize", WordText("abc"))}

FailureEnv == Env(FailureLines, {GoodLog, BadLog}, {0}, {FALSE})

NextFailure ==
    \/ RenderStep(FailureEnv)
    \/ InputStep(FailureEnv)

SpecFailure == Init /\ [][NextFailure]_vars

\* The render loop applies a config message and the set raises TypeError.
SetRefused ==
    /\ ConfigApplied
    /\ message.key \in DOMAIN data
    /\ ~ValidateType(message.val, type_hints[message.key])

\* The render loop applies a playback or query message while no log is loaded.
RefusedWithoutLog ==
    /\ rpc = "apply"
    /\ rpc' # "apply"
    /\ message.message \notin {"load", "generate", "config", "CONTINUE"}
    /\ maps = None

\* The console thread reads a line whose first token is no command.
UnknownTyped ==
    /\ ipc = "prompt"
    /\ ipc' = "loop"
    /\ commandList'.cmd \notin DOMAIN Commands

\* The render loop applies a load, the dialog returns a file, and the parse fails.
LoadFails ==
    /\ rpc = "apply"
    /\ message.message = "load"
    /\ rpc' # "apply"
    /\ filename' # NoFile
    /\ maps' = None

\* The board size is as it was; None and (None, None) both say there is none.
SizeKept ==
    \/ board_size' = board_size
    \/ board_size \in {None, <<None, None>>} /\ board_size' \in {None, <<None, None>>}

StateKept ==
    /\ UNCHANGED <<current_map_index, simulationPaused, maps, winner,
                   data, type_hints, storage>>
    /\ SizeKept

\* C13 as claimed: a refused set, a command refused for want of a log, an unknown
\* command and a load that fails to parse each leave the cursor, the paused flag,
\* the round list, the winner, the board size and the settings as they were.
C13_FailuresKeepState ==
    [][SetRefused \/ RefusedWithoutLog \/ UnknownTyped \/ LoadFails => StateKept]_vars

\* C13 as the code has it: the first three leave all of it as it was; a load that
\* fails to parse leaves the paused flag and the settings as they were and puts
\* the controller in the no-log state.
C13_FailedLoadDropsLog ==
    [][/\ SetRefused \/ RefusedWithoutLog \/ UnknownTyped => StateKept
       /\ LoadFails =>
            /\ UNCHANGED <<simulationPaused, data, type_hints, storage>>
            /\ NoLogState']_vars

\* A load has just failed over a log that was playing.
C13_Witness ==
    /\ filename = BadLog
    /\ commandList.cmd = "load"
    /\ message.message = "load"
    /\ rpc = "ack"
    /\ maps = None
    /\ current_map_index = 0
    /\ ~simulationPaused

(***************************************************************************)
(* Without a log: while a log is shown the user loads and toggles and no   *)
(* switch interval passes; while none is shown the user types every other  *)
(* playback and query command and every tick finds the interval passed.    *)
(***************************************************************************)
NoLogCommands ==
    {"toggle", "pause", "play", "skip-start", "step-back", "step-forward", "skip-end",
     "steps", "score", "winner"}

LoadingEnv == Env({Line("load"), Line("toggle")}, {GoodLog, BadLog}, {0}, {FALSE})

NoLogEnv == Env({Line(t) : t \in NoLogCommands}, {}, {MaxElapsed}, {FALSE})

NextNoLog ==
    \/ RenderStep(LoadingEnv)
    \/ InputStep(LoadingEnv)
    \/ maps = None /\ RenderStep(NoLogEnv)
    \/ maps = None /\ InputStep(NoLogEnv)

SpecNoLog == Init /\ [][NextNoLog]_vars

\* A tick of the render loop: the automatic advance and the drawing.
Ticks == rpc = "advance" /\ rpc' # "advance"

\* C17: while no log is loaded, applying toggle, pause, play, skip-start,
\* step-back, step-forward, skip-end, steps, score or winner, and every tick,
\* leaves the cursor, the paused flag, the round list and the board as they were.
C17_NoLogNoOp ==
    [][/\ maps = None
       /\ \/ rpc = "apply" /\ rpc' # "apply" /\ message.message \in NoLogCommands
          \/ Ticks
       => UNCHANGED <<current_map_index, simulationPaused, maps, map_data>>]_vars

\* No log is loaded and the controller is not paused (a load failed over a playing
\* log); step-forward was applied and a tick has found the interval passed.
C17_Witness ==
    /\ maps = None
    /\ ~simulationPaused
    /\ message.message = "step-forward"
    /\ since_switch >= map_switch_interval
    /\ rpc = "loop"
    /\ current_map_index = 0
    /\ map_data = BLANK_MAP

(***************************************************************************)
(* Stepping: one log, stepped forward and backward through every round.    *)
(***************************************************************************)
NavEnv ==
    Env({Line("load"), Line("step-forward"), Line("step-back")}, {GoodLog}, {0}, {FALSE})

NextNav ==
    \/ RenderStep(NavEnv)
    \/ InputStep(NavEnv)

SpecNav == Init /\ [][NextNav]_vars

\* The render loop applies the playback message `name` while a log is loaded.
Applied(name) ==
    /\ rpc = "apply"
    /\ rpc' # "apply"
    /\ message.message = name
    /\ maps # None

\* C15: from the cursor that step_forward leaves, step_backward goes to the
\* cursor step_forward started from; and the same with the two exchanged.
C15_StepRoundTrip ==
    [][/\ Applied("step-forward") =>
             TargetFrom("step-back", current_map_index') = current_map_index
       /\ Applied("step-back") =>
             TargetFrom("step-forward", current_map_index') = current_map_index]_vars

\* step-back has just been applied at the first round and has left the cursor at
\* the last, from where step-forward leads back to the first.
C15_Witness ==
    /\ maps # None
    /\ rpc = "ack"
    /\ message.message = "step-back"
    /\ current_map_index = Len(Rounds) - 1
    /\ TargetFrom("step-forward", current_map_index) = 0

\* C16: step_forward moves the cursor from the last index to 0 and from any other
\* index up by one; step_backward moves it from 0 to the last index and from any
\* other index down by one.
C16_StepsWrap ==
    [][/\ Applied("step-forward") =>
             current_map_index' = IF current_map_index = Len(Rounds) - 1
                                  THEN 0
                                  ELSE current_map_index + 1
       /\ Applied("step-back") =>
             current_map_index' = IF current_map_index = 0
                                  THEN Len(Rounds) - 1
                                  ELSE current_map_index - 1]_vars

\* step-forward has just been applied at the last round: the cursor is at 0.
C16_Witness ==
    /\ maps # None
    /\ rpc = "ack"
    /\ message.message = "step-forward"
    /\ current_map_index = 0

(***************************************************************************)
(* Pausing: started with pauseOnStep on or off; load, toggle, pause, play  *)
(* and the two skips at any time, the two steps at the first and the last  *)
(* round.                                                                  *)
(***************************************************************************)
PauseOffFile == MappingFile([k \in {"pauseOnStep"} |-> <<PyBool(FALSE), "bool">>])

PauseEnv ==
    Env({Line("load"), Line("toggle"), Line("pause"), Line("play"),
         Line("skip-start"), Line("skip-end")}, {GoodLog}, {0}, {FALSE})

StepEnv == Env({Line("step-forward"), Line("step-back")}, {GoodLog}, {0}, {FALSE})

AtAnEnd == maps # None /\ current_map_index \in {0, Len(Rounds) - 1}

InitPause == InitFrom({MissingFile, PauseOffFile})

NextPause ==
    \/ RenderStep(PauseEnv)
    \/ InputStep(PauseEnv)
    \/ AtAnEnd /\ InputStep(StepEnv)

SpecPause == InitPause /\ [][NextPause]_vars

\* C18: with a log loaded, each of the four navigation commands leaves the
\* controller paused when pauseOnStep is on and leaves the paused flag as it was
\* when pauseOnStep is off; skip-start puts the cursor at 0, skip-end at the last
\* index.
C18_PauseOnStep ==
    [][\A name \in {"step-forward", "step-back", "skip-start", "skip-end"} :
          Applied(name) =>
             /\ Truthy(data["pauseOnStep"]) => simulationPaused'
             /\ ~Truthy(data["pauseOnStep"]) => simulationPaused' = simulationPaused
             /\ name = "skip-start" => current_map_index' = 0
             /\ name = "skip-end" => current_map_index' = Len(Rounds) - 1]_vars

\* With pauseOnStep off, skip-end has just been applied to a playing log: the
\* cursor is at the last index and the log is still playing.
C18_Witness ==
    /\ maps # None
    /\ ~Truthy(data["pauseOnStep"])
    /\ rpc = "ack"
    /\ message.message = "skip-end"
    /\ current_map_index = Len(Rounds) - 1
    /\ ~simulationPaused

\* C20: with a log loaded, pause leaves the controller paused, play leaves it
\* playing, toggle flips the paused flag, and none of them changes the cursor or
\* the round list.
C20_PausePlayToggle ==
    [][/\ Applied("pause") => simulationPaused'
       /\ Applied("play") => ~simulationPaused'
       /\ Applied("toggle") => simulationPaused' = ~simulationPaused
       /\ Applied("pause") \/ Applied("play") \/ Applied("toggle") =>
             UNCHANGED <<current_map_index, maps>>]_vars

\* play has just been applied to a log that was already playing at its last round.
C20_Witness ==
    /\ maps # None
    /\ rpc = "ack"
    /\ message.message = "play"
    /\ commandList.cmd = "play"
    /\ ~simulationPaused
    /\ current_map_index = Len(Rounds) - 1

(***************************************************************************)
(* Playing: started with stopOnLastStep on or off; load and toggle; a tick *)
(* comes at once or after the switch interval.                             *)
(***************************************************************************)
StopOffFile == MappingFile([k \in {"stopOnLastStep"} |-> <<PyBool(FALSE), "bool">>])

AdvanceEnv == Env({Line("load"), Line("toggle")}, {GoodLog}, {0, MaxElapsed}, {FALSE})

InitAdvance == InitFrom({MissingFile, StopOffFile})

NextAdvance ==
    \/ RenderStep(AdvanceEnv)
    \/ InputStep(AdvanceEnv)

SpecAdvance == InitAdvance /\ [][NextAdvance]_vars

\* C19: a tick leaves the cursor and the paused flag as they were unless a log is
\* loaded and playing; a tick that moves the cursor moves it to (index + 1) modulo
\* the round count, resets the switch timer, and pauses exactly when the new cursor
\* is the last index and stopOnLastStep is on; a tick of a playing log that does
\* not move the cursor has found less than the switch interval elapsed.
C19_AutoAdvance ==
    [][Ticks =>
          /\ maps = None \/ simulationPaused =>
                UNCHANGED <<current_map_index, simulationPaused>>
          /\ current_map_index' # current_map_index =>
                /\ maps # None /\ ~simulationPaused
                /\ current_map_index' = (current_map_index + 1) % Len(Rounds)
                /\ since_switch' = 0
                /\ simulationPaused' =
                      (/\ current_map_index' = Len(Rounds) - 1
                       /\ Truthy(data["stopOnLastStep"]))
          /\ maps # None /\ ~simulationPaused /\ current_map_index' = current_map_index =>
                /\ since_switch' < map_switch_interval
                /\ ~simulationPaused']_vars

\* With stopOnLastStep on and nothing typed since the load, the tick that reached
\* the last round has paused the playback and reset the switch timer.
C19_Witness ==
    /\ maps # None
    /\ Truthy(data["stopOnLastStep"])
    /\ message.message = "load"
    /\ simulationPaused
    /\ current_map_index = Len(Rounds) - 1
    /\ since_switch = 0
    /\ rpc = "loop"

(***************************************************************************)
(* Writers: load, toggle, skip-end and a new cell size are typed; a log    *)
(* and a defective log are behind the dialog; the switch interval passes   *)
(* between ticks while the cursor is at the first or the last round.       *)
(***************************************************************************)
WritersEnv ==
    Env({Line("load"), Line("toggle"), Line("skip-end"),
         ConfigLine("args", "cellsize", IntText(20))},
        {GoodLog, BadLog}, {0}, {FALSE})

LateTickEnv == Env({}, {GoodLog, BadLog}, {MaxElapsed}, {FALSE})

NextWriters ==
    \/ RenderStep(WritersEnv)
    \/ InputStep(WritersEnv)
    \/ AtAnEnd /\ RenderStep(LateTickEnv)

SpecWriters == Init /\ [][NextWriters]_vars

\* The cursor, the paused flag, the round list, the winner, the board size, the
\* displayed board and the settings values.
Written ==
    <<current_map_index, simulationPaused, maps, winner, board_size, map_data, data,
      type_hints>>

\* C22: every step that changes the cursor, the paused flag, the round list, the
\* winner, the board size, the displayed board or a settings value is a step of
\* the render loop applying a dequeued message or running the automatic advance;
\* no step of the console thread changes any of them.
C22_OnlyRenderLoopWrites ==
    [][Written' # Written =>
          /\ ipc' = ipc
          /\ \/ rpc = "apply" /\ rpc' # "apply"
             \/ Ticks]_vars

\* The render loop has applied the typed cell size while the console thread waits,
\* with a log loaded and advanced by a tick.
C22_Witness ==
    /\ rpc = "ack"
    /\ message.message = "config"
    /\ data["cellSize"] = PyInt(20)
    /\ ipc = "wait"
    /\ maps # None
    /\ current_map_index = 1

(***************************************************************************)
(* The queue between the two threads (checked under FairConsole)           *)
(***************************************************************************)
\* A command message is in the queue.
CommandQueued == \E i \in 1..Len(command_queue) : command_queue[i].message # "CONTINUE"

\* The render loop is applying a command message it has dequeued.
ApplyingCommand == rpc = "apply" /\ message.message # "CONTINUE"

\* The queue is first-in-first-out; what leaves it is either handed by the render
\* loop to its apply step, which runs once for it, or is a CONTINUE taken by the
\* console thread.
QueueDiscipline ==
    /\ [][command_queue' # command_queue =>
             \/ command_queue # <<>> /\ command_queue' = Tail(command_queue)
             \/ /\ Len(command_queue') = Len(command_queue) + 1
                /\ SubSeq(command_queue', 1, Len(command_queue)) = command_queue]_vars
    /\ [][Len(command_queue') < Len(command_queue) =>
             \/ /\ rpc = "get" /\ rpc' = "apply"
                /\ message' = Head(command_queue)
                /\ ipc' = ipc
             \/ /\ InputLeavesWait
                /\ Head(command_queue).message = "CONTINUE"
                /\ UNCHANGED <<rpc, message>>]_vars
    /\ [][rpc' = "apply" /\ rpc # "apply" =>
             /\ rpc = "get"
             /\ command_queue # <<>>
             /\ command_queue' = Tail(command_queue)]_vars
    /\ [][rpc = "apply" /\ rpc' # "apply" => rpc' \in {"ack", "crashed"}]_vars

\* C23 as claimed: the queue discipline holds, and every command message that is
\* queued is in time applied by the render loop.
C23_EveryMessageApplied ==
    /\ QueueDiscipline
    /\ CommandQueued ~> ApplyingCommand

\* C23 as the code has it: the queue discipline holds, and every command message
\* that is queued is in time applied by the render loop unless the process ends
\* first: a message put after the running event was set and the queue drained for
\* the last time stays in the queue.
C23_AppliedUnlessProcessEnds ==
    /\ QueueDiscipline
    /\ CommandQueued ~> (ApplyingCommand \/ ~Alive)

\* The process has exited while the console thread waits for the answer to a
\* command that is still in the queue.
C23_Witness ==
    /\ rpc = "done"
    /\ ipc = "wait"
    /\ CommandQueued
    /\ commandList.cmd = "pause"

(***************************************************************************)
(* A token that is no command (checked under SpecFailure)                  *)
(***************************************************************************)
\* The console thread executes a line whose first token is no command.
UnknownExecuted ==
    /\ ipc = "prompt"
    /\ ipc' \notin {"prompt", "ended"}
    /\ commandList'.cmd \notin DOMAIN Commands

\* C24: a token that is no command raises an error whose text holds the token,
\* puts no message, leaves the playback state, the settings and the running event
\* as they were, and sends the console thread back to its prompt without a wait.
C24_UnknownTokenRefused ==
    [][UnknownExecuted =>
          /\ NotFoundText(commandList'.cmd)[2] = commandList'.cmd
          /\ ExecuteCommand(commandList', data).returns = "KeyError"
          /\ command_queue' = command_queue
          /\ UNCHANGED <<settingsVars, logVars, map_switch_interval, running>>
          /\ ipc' = "loop"]_vars

\* `bogus` was typed while a log was playing: nothing is queued, the log plays
\* on, and the console thread is on its way to the next prompt.
C24_Witness ==
    /\ commandList.cmd = "bogus"
    /\ ipc = "loop"
    /\ command_queue = <<>>
    /\ maps # None
    /\ ~simulationPaused
    /\ current_map_index = Len(Rounds) - 1

(***************************************************************************)
(* Saving on a set (checked under SpecSettings)                            *)
(***************************************************************************)
\* The render loop applies a config message whose value passes the type check of
\* its key: the set stores the value.
SetSucceeds ==
    /\ ConfigApplied
    /\ rpc' \in {"ack", "crashed"}
    /\ message.key \in DOMAIN data
    /\ ValidateType(message.val, type_hints[message.key])

\* C25: a set that stores its value writes the whole mapping to the file when the
\* autoSave value of the mapping after the assignment is true, so that the file
\* equals the mapping in memory, and leaves the file as it was when it is false.
C25_SetSavesByAutoSave ==
    [][SetSucceeds =>
          /\ data'[message.key] = message.val
          /\ IF Truthy(data'["autoSave"])
             THEN storage' = Save(data', type_hints')
             ELSE storage' = storage]_vars

\* autoSave was turned off, which was not saved, and then the cell size was set:
\* the file still holds autoSave on and the old cell size.
C25_Witness ==
    /\ rpc = "ack"
    /\ message = ConfigMessage("cellSize", PyInt(20))
    /\ data["cellSize"] = PyInt(20)
    /\ data["autoSave"] = PyBool(FALSE)
    /\ storage.entries["cellSize"][1] = PyInt(30)
    /\ storage.entries["autoSave"][1] = PyBool(TRUE)

(***************************************************************************)
(* Aliases (checked under SpecConsole)                                     *)
(***************************************************************************)
\* The names under which the i-th registration was made.
NamesOf(i) ==
    {Registrations[i].command}
    \cup {Registrations[i].aliases[j] : j \in 1..Len(Registrations[i].aliases)}

\* Every name of every registration still leads to that registration's command
\* and executor: none was replaced by a later registration.
NoRegistrationReplaced ==
    \A i \in 1..Len(Registrations) :
        \A name \in NamesOf(i) :
            /\ name \in DOMAIN Commands
            /\ Commands[name].command = Registrations[i].command
            /\ Commands[name].executor = Registrations[i].executor
            /\ Commands[name].is_alias = (name # Registrations[i].command)

\* The console thread executes a line whose token is an alias.
ExecutesAlias == ExecutesRecognized /\ Commands[commandList'.cmd].is_alias

\* C27: no name, primary or alias, was replaced by the registration of another
\* command; and executing an alias does to the queue, the running event and the
\* console thread what executing the primary name does.
C27_AliasesActAsPrimary ==
    /\ [](NoRegistrationReplaced)
    /\ [][ExecutesAlias =>
             LET primary == Commands[commandList'.cmd].command
                 r == ExecuteCommand(Line(primary), data)
             IN  /\ command_queue' =
                       IF r.put = None THEN command_queue
                       ELSE Append(command_queue, r.put[1])
                 /\ r.put # None => r.put[1].message = primary
                 /\ running' = (running \/ r.set_running)
                 /\ ipc' = IF r.returns \in {"False", "KeyError"} THEN "loop" ELSE "wait"]_vars

\* `s` was typed: the message step-forward is in the queue.
C27_Witness ==
    /\ commandList.cmd = "s"
    /\ ipc = "wait"
    /\ command_queue = <<Message("step-forward")>>

(***************************************************************************)
(* Matching key names: `config <name> 20` is typed with names that are a   *)
(* key in lower case, a part of one, a letter that two keys match equally  *)
(* well, two letters that every key matches about as badly, and letters    *)
(* that hardly any key has.                                                *)
(***************************************************************************)
MatchEnv == Env({ConfigLine("args", t, IntText(20)) : t \in KeyTexts}, {}, {0}, {FALSE})

NextMatch ==
    \/ RenderStep(MatchEnv)
    \/ InputStep(MatchEnv)

SpecMatch == Init /\ [][NextMatch]_vars

\* The keys whose score for the text no key exceeds, and those none falls below.
BestKeys(text) ==
    {i \in 1..Len(KeyOrder) :
        \A j \in 1..Len(KeyOrder) : ~RatioLess(Ratio(text, i), Ratio(text, j))}

WorstKeys(text) ==
    {i \in 1..Len(KeyOrder) :
        \A j \in 1..Len(KeyOrder) : ~RatioLess(Ratio(text, j), Ratio(text, i))}

\* The match the rule gives: none when the best score is below 0.20, or when best
\* minus worst is below 0.10 and the best is below 0.30; else the first key, in
\* the order of the mapping, among those of the best score.
RuleMatch(text) ==
    LET best == Ratio(text, CHOOSE i \in BestKeys(text) : TRUE)
        worst == Ratio(text, CHOOSE i \in WorstKeys(text) : TRUE)
    IN  IF RatioLess(best, <<20, 100>>) THEN None
        ELSE IF DiffLess(best, worst, 10, 100) /\ RatioLess(best, <<30, 100>>) THEN None
        ELSE Some(KeyOrder[CHOOSE i \in BestKeys(text) : \A j \in BestKeys(text) : i <= j])

\* The console thread executes `config <name> <value>`.
ConfigTyped ==
    /\ ipc = "prompt"
    /\ ipc' \notin {"prompt", "ended"}
    /\ commandList'.cmd = "config"
    /\ commandList'.mode = "args"
    /\ commandList'.key # ""
    /\ commandList'.value.lex # "blank"

\* C28: the config command resolves the typed name by the rule: it puts nothing
\* and prompts again when the rule gives no match, and else puts the message for
\* the key the rule gives.
C28_MatchFollowsRule ==
    [][ConfigTyped =>
          LET matched == RuleMatch(commandList'.key) IN
          IF matched = None
          THEN command_queue' = command_queue /\ ipc' = "loop"
          ELSE /\ command_queue' =
                     Append(command_queue,
                            ConfigMessage(matched[1], ConvertValue(commandList'.value)))
               /\ ipc' = "wait"]_vars

\* `e`, which cellSize and autoSave match equally well, has set the cell size;
\* then `ea`, whose scores all lie within 0.10 below 0.30, was refused.
C28_Witness ==
    /\ commandList.key = "ea"
    /\ ipc = "loop"
    /\ command_queue = <<>>
    /\ message = ConfigMessage("cellSize", PyInt(20))
    /\ data["cellSize"] = PyInt(20)
    /\ RuleMatch("e") = Some("cellSize")
    /\ RuleMatch("ea") = None

(***************************************************************************)
(* Sections of unusual shape: a log, a log with a late separator and a log *)
(* with a long footer are behind the dialog.                               *)
(***************************************************************************)
ShapesEnv ==
    Env({Line("load"), Line("toggle"), Line("skip-end")},
        {File("asc", RequiredRounds, "none", 0)} \cup OddFiles, {0}, {FALSE})

NextShapes ==
    \/ RenderStep(ShapesEnv)
    \/ InputStep(ShapesEnv)

SpecShapes == Init /\ [][NextShapes]_vars

\* C29: while a log is loaded, every round's board has the declared number of
\* rows, and every row the declared number of columns, all of the alphabet.
C29_BoardsHaveDeclaredSize ==
    maps # None =>
        \A i \in 1..Len(Rounds) :
            /\ Len(Rounds[i].board) = board_size[1][1]
            /\ \A r \in 1..Len(Rounds[i].board) :
                  /\ Len(Rounds[i].board[r]) = board_size[2][1]
                  /\ \A c \in 1..Len(Rounds[i].board[r]) :
                        Rounds[i].board[r][c] \in VALID_MAP_CHARS

\* C30: the footer is no candidate round: once the dialog has returned a log whose
\* header and round sections are sound and whose footer names the winner, the log
\* is loaded with exactly the rounds of its round sections, however many lines the
\* footer has.
C30_FooterIsNoRound ==
    filename = LongFooterLog => maps = Some(ExpectedRounds(filename))

(***************************************************************************)
(* The switch interval (checked under SpecInterval): stepsPerSecond typed  *)
(* as 0, 20, 1.5, true and abc, from the default settings.                 *)
(***************************************************************************)
IntervalLines ==
    {ConfigLine("args", "stepspersecond", v) :
        v \in {IntText(0), IntText(20), DecText(15), WordText("true"), WordText("abc")}}

IntervalEnv == Env(IntervalLines, {}, {0}, {FALSE})

NextInterval ==
    \/ RenderStep(IntervalEnv)
    \/ InputStep(IntervalEnv)

SpecInterval == Init /\ [][NextInterval]_vars

\* C31: at every tick boundary of the render loop (the top of the while loop) the
\* switch interval is 1000 // stepsPerSecond of the current settings, whatever
\* config commands were accepted or rejected before.
C31_IntervalFollowsSetting ==
    rpc = "loop" =>
        /\ ~IntervalRaises(data)
        /\ map_switch_interval = SwitchInterval(data)

\* A tick boundary after stepsPerSecond was set to 20: the interval is 50 ms.
C31_Witness ==
    /\ rpc = "loop"
    /\ message.message = "config"
    /\ data["stepsPerSecond"] = PyInt(20)
    /\ map_switch_interval = 50

\* A tick boundary after a rejected value (1.5 for the int key): the setting and
\* the interval are the defaults.
C31_RejectedWitness ==
    /\ rpc = "loop"
    /\ message = ConfigMessage("stepsPerSecond", PyFloat(15))
    /\ data["stepsPerSecond"] = PyInt(5)
    /\ map_switch_interval = 200

(***************************************************************************)
(* The five-a-side variant (checked under SpecFive): the dialog returns a  *)
(* sound four-a-side log or a log whose first board holds I and J.         *)
(***************************************************************************)
FiveEnv == Env({Line("load"), Line("toggle")}, {GoodLog, FiveAntLog}, {0}, {FALSE})

NextFive ==
    \/ RenderStep(FiveEnv)
    \/ InputStep(FiveEnv)

SpecFive == Init /\ [][NextFive]_vars

\* C32: the five-ant flag (from which reset_screen takes the rosters) is true
\* exactly after the load of a log whose boards hold the ants I and J, and the
\* load of such a log succeeds.
C32_FlagFollowsBoards ==
    /\ has_five_ants <=> filename = FiveAntLog
    /\ filename = FiveAntLog => maps # None

(***************************************************************************)
(* Playback (checked under SpecPlayback): load, toggle, pause, play, the   *)
(* skips, steps, score and winner are typed at any time, the two steps     *)
(* while the cursor is at the first or the last round; a log and a         *)
(* defective log are behind the dialog, which can also be cancelled; the   *)
(* switch interval passes between ticks while the cursor is at an end.     *)
(***************************************************************************)
PlaybackEnv ==
    Env({Line(t) : t \in {"load", "toggle", "pause", "play", "skip-start", "skip-end",
                          "steps", "score", "winner"}},
        {GoodLog, BadLog}, {0}, {FALSE})

NextPlayback ==
    \/ RenderStep(PlaybackEnv)
    \/ InputStep(PlaybackEnv)
    \/ AtAnEnd /\ InputStep(StepEnv)
    \/ AtAnEnd /\ RenderStep(LateTickEnv)

SpecPlayback == Init /\ [][NextPlayback]_vars

\* C33: the cursor is a valid index: 0 <= cursor < number of rounds while a log is
\* loaded, and 0 while no log is loaded, after any loads (successful, failed,
\* cancelled), navigation commands and automatic advances.
C33_CursorInRange ==
    IF maps = None
    THEN current_map_index = 0
    ELSE 0 <= current_map_index /\ current_map_index < Len(Rounds)

\* The dialog was cancelled while a log was playing (a log was loaded, since the
\* simulation runs): no log, cursor 0.
C33_Witness ==
    /\ rpc = "ack"
    /\ message.message = "load"
    /\ filename = NoFile
    /\ ~simulationPaused
    /\ maps = None
    /\ current_map_index = 0

\* The cursor at the last round of a loaded log.
C33_LastRoundWitness ==
    /\ maps # None
    /\ current_map_index = Len(Rounds) - 1
    /\ message.message = "step-back"

\* C34: at every tick boundary the board handed to the renderer is the board of
\* the round at the cursor while a log is loaded, and the placeholder board while
\* no log is loaded.
C34_BoardFollowsCursor ==
    rpc = "loop" =>
        map_data = IF maps = None THEN BLANK_MAP ELSE BoardAt(current_map_index)

\* A tick boundary after step-back wrapped to the last round, whose board differs
\* from the first round's.
C34_Witness ==
    /\ rpc = "loop"
    /\ maps # None
    /\ message.message = "step-back"
    /\ current_map_index = Len(Rounds) - 1
    /\ map_data = BoardAt(Len(Rounds) - 1)
    /\ map_data # BoardAt(0)

\* The board size has both dimensions.
BothDimensions ==
    /\ board_size # None
    /\ board_size[1] # None
    /\ board_size[2] # None

\* The load command is applied and the dialog returns no file.
LoadCancelled ==
    /\ rpc = "apply" /\ message.message = "load"
    /\ rpc' = "ack" /\ filename' = NoFile

\* C35: a round list is present exactly when a winner is present and exactly when
\* the board size has both dimensions; a load for which the dialog returns no file
\* clears all three.
C35_LogStateTogether ==
    /\ [](/\ maps # None <=> winner # None
          /\ maps # None <=> BothDimensions)
    /\ [][LoadCancelled =>
            maps' = None /\ winner' = None /\ board_size' = <<None, None>>]_vars

\* The dialog was cancelled while a log was playing: all three are absent.
C35_Witness ==
    /\ rpc = "ack"
    /\ message.message = "load"
    /\ filename = NoFile
    /\ ~simulationPaused
    /\ maps = None /\ winner = None /\ board_size = <<None, None>>
    /\ map_data = BLANK_MAP

\* The render loop applies a navigation or playback command, or runs the automatic
\* advance, while a log is loaded.
PlaybackStep ==
    /\ maps # None
    /\ \/ /\ rpc = "apply" /\ rpc' = "ack"
          /\ message.message \in {"toggle", "pause", "play", "skip-start", "step-back",
                                  "step-forward", "skip-end", "steps", "score", "winner"}
       \/ rpc = "advance" /\ rpc' = "loop"

\* C36: with a log loaded, the navigation and playback commands and the automatic
\* advance leave the round list (every round's board and scores), the winner and
\* the board size unchanged; only a load replaces them.
C36_PlaybackKeepsLog ==
    /\ [][PlaybackStep => UNCHANGED <<maps, winner, board_size>>]_vars
    /\ [][<<maps, winner, board_size>>' # <<maps, winner, board_size>> =>
            rpc = "apply" /\ message.message = "load"]_vars

\* skip-end was applied to a playing log: the cursor is at the last round and the
\* log is the one loaded.
C36_Witness ==
    /\ rpc = "ack"
    /\ message.message = "skip-end"
    /\ maps = Some(Parsed[GoodLog].rounds)
    /\ current_map_index = Len(Rounds) - 1
    /\ winner = Some("NORTH")
    /\ board_size = <<Some(BoardRows), Some(BoardCols)>>

\* The automatic advance moved the cursor from the first round of the loaded log.
C36_AdvanceWitness ==
    /\ rpc = "loop"
    /\ message.message = "toggle"
    /\ current_map_index = 1
    /\ since_switch = 0
    /\ maps = Some(Parsed[GoodLog].rounds)

(***************************************************************************)
(* The command queue (checked under SpecConsole)                           *)
(***************************************************************************)
\* C37: the command queue holds at most one message, command messages and the
\* CONTINUE sentinel counted together, in every interleaving of the two threads.
C37_QueueHoldsAtMostOne == Len(command_queue) <= 1

\* The render loop has answered a command with the sentinel, which the console
\* thread has not taken yet.
C37_Witness ==
    /\ ipc = "wait"
    /\ rpc = "advance"
    /\ message.message = "toggle"
    /\ command_queue = <<Message("CONTINUE")>>

\* A command message waits in the queue while the render loop is between ticks.
C37_CommandWitness ==
    /\ ipc = "wait"
    /\ rpc = "events"
    /\ command_queue = <<Message("toggle")>>

\* C38: the render loop never dequeues the CONTINUE sentinel nor runs it through
\* the branches of the drain loop as a command.
C38_RenderNeverTakesContinue == ~(rpc = "apply" /\ message.message = "CONTINUE")

(***************************************************************************)
(* The settings object on its own (checked under SpecMapping): load, the   *)
(* assignment and the deletion of a key are called on it in any order,     *)
(* starting from the object __init__ builds on each settings file.         *)
(***************************************************************************)
\* The keys and the values the calls are made with: two default keys and a key
\* that is not a setting.
CalledKeys == {"cellSize", "autoSave", "zoom"}
CalledValues == {PyInt(20), PyBool(FALSE), PyStr(1)}

\* settings[key] = value
SettingsSetItem ==
    \E key \in CalledKeys, val \in CalledValues :
        LET r == SetItem(data, type_hints, storage, key, val) IN
        /\ data' = r.data
        /\ storage' = r.storage
        /\ UNCHANGED <<type_hints, simulationPaused, logVars, map_switch_interval,
                       since_switch, threadVars>>

\* del settings[key]
SettingsDelItem ==
    \E key \in CalledKeys :
        LET r == DelItem(data, type_hints, storage, key) IN
        /\ data' = r.data
        /\ type_hints' = r.type_hints
        /\ storage' = r.storage
        /\ UNCHANGED <<simulationPaused, logVars, map_switch_interval, since_switch,
                       threadVars>>

\* settings.load()
SettingsLoad ==
    LET l == Load(storage) IN
    /\ data' = l.data
    /\ type_hints' = l.type_hints
    /\ storage' = l.storage
    /\ UNCHANGED <<simulationPaused, logVars, map_switch_interval, since_switch,
                   threadVars>>

InitMapping == InitFrom({MissingFile, NumberFile, ShortEntryFile, PartialFile})

NextMapping ==
    \/ SettingsSetItem
    \/ SettingsDelItem
    \/ SettingsLoad

SpecMapping == InitMapping /\ [][NextMapping]_vars

\* C39: after any sequence of load, set and delete calls, those that raise
\* included, the keys that have a value are the keys that have a type tag.
C39_ValuesAndTagsAgree == DOMAIN data = DOMAIN type_hints

(***************************************************************************)
(* Drawing (checked under SpecDraw): a log of plain boards and a log whose *)
(* last board holds an ant, an ant with food, an anthill and a food pile   *)
(* are behind the dialog; the mouse may be over a cell at any frame.       *)
(***************************************************************************)
AntsLog == File("asc", RequiredRounds, "ants", RequiredRounds)

DrawEnv == Env({Line("load"), Line("skip-end")}, {GoodLog, AntsLog}, {0}, {FALSE, TRUE})

NextDraw ==
    \/ RenderStep(DrawEnv)
    \/ InputStep(DrawEnv)

SpecDraw == Init /\ [][NextDraw]_vars

\* C40: every settings key read while a frame is drawn is a key of the mapping
\* load produced, so no frame fails with a missing key, whether the board has
\* food piles, anthills or ants, or a cell is hovered.
C40_DrawFindsItsKeys == [][rpc = "advance" => rpc' # "crashed"]_vars

====
